---- MODULE Spec2Model ----
(***************************************************************************)
(* A model of the microps protocol stack: the TCP endpoint engine          *)
(* (src/tcp.c), the UDP endpoint engine (src/udp.c) and the scheduler      *)
(* contexts they sleep on (src/platform/linux/sched.c).                    *)
(*                                                                         *)
(* Every handler runs under its subsystem mutex, so one action is the code *)
(* a thread executes between taking the mutex (or waking inside            *)
(* pthread_cond_wait) and releasing it (or sleeping again).                *)
(***************************************************************************)
EXTENDS Integers, Sequences, FiniteSets, TLC

(***************************************************************************)
(* Machine words.  A uint32_t does not fit a TLC integer, so it is kept as *)
(* the pair <<high half, low half>> of its 16-bit halves; the arithmetic   *)
(* below is arithmetic modulo 2^32.  A uint16_t is an integer modulo 2^16. *)
(***************************************************************************)
Pow16 == 65536

U16(x) == x % Pow16

U32(hi, lo) == <<hi, lo>>

Zero32 == U32(0, 0)

\* a + n modulo 2^32, n a natural number
Add32(a, n) ==
    LET s == a[2] + (n % Pow16)
    IN  U32((a[1] + (n \div Pow16) + (s \div Pow16)) % Pow16, s % Pow16)

\* a - b modulo 2^32, both uint32_t
Sub32(a, b) ==
    LET d == a[2] - b[2]
    IN  U32((a[1] - b[1] - (IF d < 0 THEN 1 ELSE 0)) % Pow16, d % Pow16)

\* a - n modulo 2^32, n a natural number
Dec32(a, n) == Sub32(a, U32((n \div Pow16) % Pow16, n % Pow16))

\* unsigned comparison of two uint32_t
Lt32(a, b) == a[1] < b[1] \/ (a[1] = b[1] /\ a[2] < b[2])

Le32(a, b) == a = b \/ Lt32(a, b)

MIN(x, y) == IF x < y THEN x ELSE y

\* MIN(n, c) for a size_t n below 2^16 and a size_t c that holds a uint32_t
MinCap(n, c) == IF c[1] > 0 THEN n ELSE MIN(n, c[2])

(***************************************************************************)
(* Byte strings.  A byte array is kept run-length encoded: a sequence of   *)
(* runs <<byte, count>>, count > 0, adjacent runs of different bytes.      *)
(***************************************************************************)
Run(b, n) == <<b, n>>

RECURSIVE BLen(_)
BLen(s) == IF s = <<>> THEN 0 ELSE s[1][2] + BLen(Tail(s))

\* concatenation, merging the two runs that meet
BCat(s, t) ==
    IF s = <<>> THEN t
    ELSE IF t = <<>> THEN s
    ELSE IF s[Len(s)][1] = t[1][1]
         THEN SubSeq(s, 1, Len(s) - 1)
              \o <<Run(t[1][1], s[Len(s)][2] + t[1][2])>>
              \o Tail(t)
         ELSE s \o t

\* the first k bytes of s (all of s when it is shorter)
RECURSIVE BTake(_, _)
BTake(s, k) ==
    IF k <= 0 \/ s = <<>> THEN <<>>
    ELSE IF s[1][2] >= k THEN <<Run(s[1][1], k)>>
    ELSE <<s[1]>> \o BTake(Tail(s), k - s[1][2])

\* s without its first k bytes
RECURSIVE BDrop(_, _)
BDrop(s, k) ==
    IF k <= 0 \/ s = <<>> THEN s
    ELSE IF s[1][2] > k THEN <<Run(s[1][1], s[1][2] - k)>> \o Tail(s)
    ELSE BDrop(Tail(s), k - s[1][2])

\* bytes i .. j-1 of s (0-based)
BSub(s, i, j) == BTake(BDrop(s, i), j - i)

\* s is a prefix of t
BPrefix(s, t) == BLen(s) <= BLen(t) /\ BTake(t, BLen(s)) = s

(***************************************************************************)
(* Program constants.                                                      *)
(***************************************************************************)
TCP_FLG_FIN == 1
TCP_FLG_SYN == 2
TCP_FLG_RST == 4
TCP_FLG_PSH == 8
TCP_FLG_ACK == 16

TCP_PCB_SIZE == 16

TCP_PCB_STATE_FREE == 0
TCP_PCB_STATE_CLOSED == 1
TCP_PCB_STATE_LISTEN == 2
TCP_PCB_STATE_SYN_SENT == 3
TCP_PCB_STATE_SYN_RECEIVED == 4
TCP_PCB_STATE_ESTABLISHED == 5

\* sizeof(pcb->buf)
TCP_BUF_SIZE == 65535

\* sizeof(struct tcp_hdr)
TCP_HDR_SIZE == 20

IP_HDR_SIZE_MIN == 20

IP_ADDR_ANY == 0

\* errno value stored by an interrupted call
EINTR == 4

\* the value a failed call returns
ERROR == -1

UDP_PCB_SIZE == 16

UDP_PCB_STATE_FREE == 0
UDP_PCB_STATE_OPEN == 1
UDP_PCB_STATE_CLOSING == 2

(***************************************************************************)
(* Bounds of the model.                                                    *)
(***************************************************************************)
\* steps of the environment in one behaviour: user commands issued,
\* segments delivered and EVENT interrupts raised
MaxSteps == 5

\* MTU of the device that routes to the peers
DevMtu == 42

(***************************************************************************)
(* The environment: application threads, endpoints, payloads.              *)
(***************************************************************************)
Threads == {"t1", "t2"}

ThreadBefore(u, t) == u = "t1" /\ t = "t2"

NoThread == "none"

\* a null struct tcp_pcb pointer, as a slot number
NULL == -1

Endpoint(a, p) == [addr |-> a, port |-> p]

\* endpoints a passive open listens on
OpenLocals == {Endpoint(IP_ADDR_ANY, 7)}

\* a null struct ip_endpoint pointer
NULL_ENDPOINT == Endpoint(-1, -1)

\* a null struct ip_iface pointer
NULL_IFACE == [mtu |-> -1]

\* foreign arguments of a passive open
OpenForeigns == {NULL_ENDPOINT}

\* the address of the local interface (addresses are modelled 16 bits
\* wide, network byte then host byte: 514 is 2.2)
HostAddrs == {514}

\* the peer that opens connections (2.1, on the interface's network), and
\* a second host (0.20) that only a default route reaches
Peer == Endpoint(513, 1000)

Stranger == Endpoint(20, 2000)

\* values random() returns (0 .. 2^31 - 1)
IssValues == {U32(0, 100)}

\* initial sequence numbers the peer uses
IrsValues == {U32(0, 1000)}

\* payloads: short ones, and one that nearly fills the receive buffer
Bytes(b, n) == IF n = 0 THEN <<>> ELSE <<Run(b, n)>>

SegPayloads == {<<>>, Bytes(97, 1), <<Run(97, 1), Run(98, 1)>>, Bytes(120, TCP_BUF_SIZE - 1)}

SendPayloads == {<<Run(97, 1), Run(98, 1), Run(99, 1)>>}

RecvSizes == {1, 2048}

(***************************************************************************)
(* The network below TCP and UDP: devices, interfaces, routes, ARP.  An    *)
(* ip_addr_t is modelled 16 bits wide and is written as the number its     *)
(* bytes make in network order (a.b is 256 a + b); a hardware address is   *)
(* a small number.                                                         *)
(***************************************************************************)
IP_ADDR_BROADCAST == 65535

IP_PROTOCOL_TCP == 6
IP_PROTOCOL_UDP == 17

NET_DEVICE_TYPE_LOOPBACK == 1
NET_DEVICE_TYPE_ETHERNET == 2

NET_PROTOCOL_TYPE_IP == 2048
NET_PROTOCOL_TYPE_ARP == 2054

ARP_HRD_ETHER == 1
ARP_PRO_IP == 2048
ARP_OP_REQUEST == 1
ARP_OP_REPLY == 2

ETHER_ADDR_LEN == 6
IP_ADDR_LEN == 4

ARP_CACHE_SIZE == 32

ARP_CACHE_STATE_FREE == 0
ARP_CACHE_STATE_INCOMPLETE == 1
ARP_CACHE_STATE_RESOLVED == 2
ARP_CACHE_STATE_STATIC == 3

\* what arp_resolve returns (arp.h)
ARP_RESOLVE_ERROR == -1
ARP_RESOLVE_INCOMPLETE == 0
ARP_RESOLVE_FOUND == 1

UDP_SOURCE_PORT_MIN == 49152
UDP_SOURCE_PORT_MAX == 65535

\* hardware addresses: all zero, all ones
ETHER_ADDR_ANY == 0
ETHER_ADDR_BROADCAST == 255

\* a & b of unsigned integers
RECURSIVE BitAnd(_, _)
BitAnd(a, b) ==
    IF a = 0 \/ b = 0 THEN 0
    ELSE (a % 2) * (b % 2) + 2 * BitAnd(a \div 2, b \div 2)

\* a & netmask
MaskAnd(a, netmask) == BitAnd(a, netmask)

\* the Ethernet device (ether_setup_helper) and the loopback device
\* (loopback_init), both opened by net_run
EtherDev ==
    [name |-> "net1", type |-> NET_DEVICE_TYPE_ETHERNET, mtu |-> DevMtu,
     up |-> TRUE, need_arp |-> TRUE, addr |-> 1, broadcast |-> ETHER_ADDR_BROADCAST]

LoopbackDev ==
    [name |-> "net0", type |-> NET_DEVICE_TYPE_LOOPBACK, mtu |-> 65535,
     up |-> TRUE, need_arp |-> FALSE, addr |-> ETHER_ADDR_ANY,
     broadcast |-> ETHER_ADDR_ANY]

\* ip_iface_alloc(unicast, netmask) on device dev
ip_iface_alloc(dev, unicast, netmask) ==
    [unicast |-> unicast, netmask |-> netmask,
     broadcast |-> MaskAnd(unicast, netmask) + (65535 - netmask),
     dev |-> dev]

\* 2.2/8 on the Ethernet device, 127.1/8 on the loopback device
EtherIface == ip_iface_alloc(EtherDev, 514, 65280)

LoopbackIface == ip_iface_alloc(LoopbackDev, 32513, 65280)

\* ip_route_add: the new route goes to the head of the list
ip_route_add(R, network, netmask, nexthop, iface) ==
    <<[network |-> network, netmask |-> netmask, nexthop |-> nexthop,
       iface |-> iface]>> \o R

\* ip_iface_register adds the route to the interface's own network
ip_iface_register(R, iface) ==
    ip_route_add(R, MaskAnd(iface.unicast, iface.netmask), iface.netmask,
                 IP_ADDR_ANY, iface)

ip_route_set_default_gateway(R, iface, gw) ==
    ip_route_add(R, IP_ADDR_ANY, IP_ADDR_ANY, gw, iface)

\* the routes after the setup of the test programs, without and with the
\* default gateway 2.1
OnLinkRoutes == ip_iface_register(ip_iface_register(<<>>, LoopbackIface), EtherIface)

GatewayRoutes == ip_route_set_default_gateway(OnLinkRoutes, EtherIface, Peer.addr)

CacheIds == 0 .. (ARP_CACHE_SIZE - 1)

\* a struct arp_cache of all-zero bytes
FreeCache ==
    [state |-> ARP_CACHE_STATE_FREE, pa |-> 0, ha |-> ETHER_ADDR_ANY, timestamp |-> 0]

\* arp_input is not between its two locked parts
NoMessage == [op |-> 0]

\* no arp_resolve returned
NoResolve == [pa |-> 0, ret |-> ARP_RESOLVE_ERROR, ha |-> ETHER_ADDR_ANY, called |-> FALSE]

\* ip.c: static uint16_t id = 128
IP_ID_FIRST == 128

IP_PROTOCOL_ICMP == 1

IP_VERSION_IPV4 == 4

\* ip_input has handed nothing to a handler
NoDelivery ==
    [words |-> <<>>, rlen |-> 0, handler |-> 0, len |-> 0, beyond |-> FALSE]

\* no initialisation call has returned
NoNetReturn == [op |-> "none", ret |-> 0]

\* no lookup has returned
NoLookup == [dst |-> 0, route |-> [network |-> -1], called |-> FALSE]

\* the mutexes: of arp.c, udp.c, tcp.c, of ip_generate_id and of the
\* loopback device
Mutexes == {"arp", "udp", "tcp", "ip_id", "loopback"}

\* the thread of intr_thread, which runs the interrupt handlers
Dispatch == "intr"

LockThreads == Threads \cup {Dispatch}

(***************************************************************************)
(* State.                                                                  *)
(***************************************************************************)
VARIABLES
    pcbs,       \* tcp.c: static struct tcp_pcb pcbs[TCP_PCB_SIZE]
    tcp_mutex,  \* tcp.c: static mutex_t mutex; the thread that holds it
    thr,        \* the application threads: where each one is in its call
    tx,         \* the segments the last step handed to ip_output, in order
    rv,         \* the call that returned in the last step, if one did
    budget,     \* commands, segments, EVENT interrupts and spurious wakeups to come
    rxlog,      \* per PCB slot: the payload bytes copied into buf so far
    rdlog,      \* per PCB slot: the bytes tcp_receive returned so far
    overrun,    \* per PCB slot: a memcpy wrote past the end of buf
    udp_pcbs,   \* udp.c: the table pcbs
    udp_mutex,  \* udp.c: the thread that holds mutex, or NoThread
    uthr,       \* the application threads: where each one is in its UDP call
    urv,        \* the UDP call that returned in the last step, if one did
    routes,     \* ip.c: the list routes, the newest route first
    caches,     \* arp.c: the table caches
    ticks,      \* the time gettimeofday returns next
    arp_rx,     \* the ARP message arp_input holds between its two locked parts
    arp_rv,     \* the arp_resolve that returned in the last step, if one did
    frames,     \* what the last step handed to net_device_output, in order
    ip_id,      \* ip.c: static uint16_t id of ip_generate_id
    net_protocols, \* net.c: the list protocols, the newest first
    ip_protocols,  \* ip.c: the list protocols, the newest first
    subscribers,   \* the handlers subscribed to the EVENT interrupt, the newest first
    ip_rx,      \* what ip_input did with the datagram of the last step
    net_rv,     \* the initialisation call that returned in the last step
    route_rv,   \* the ip_route_lookup that returned in the last step
    holder,     \* per mutex: the thread that holds it, or NoThread
    script,     \* per thread: the mutex operations its call has still to make
    lo_queue,   \* loopback.c: the queue of the loopback device, the oldest entry first
    pending,    \* per signal: how often it is pending for the dispatch thread
    queues,     \* net.c: per ethertype, the queue of the protocol
    intr_pc,    \* intr_thread: "wait" in sigwait, or the signal it has taken
    lo_sent,    \* the packets loopback_transmit has queued so far, in order
    net_in,     \* the calls of net_input_handler so far, in order
    handled,    \* the calls of the protocols' handlers so far, in order
    id_log      \* the values ip_generate_id has returned so far, in order

tcpvars == <<pcbs, tcp_mutex, thr, tx, rv, rxlog, rdlog, overrun>>

udpvars == <<udp_pcbs, udp_mutex, uthr, urv>>

ipvars == <<routes, caches, ticks, arp_rx, arp_rv, frames, ip_id>>

lockvars == <<holder, script>>

drvvars == <<lo_queue, pending, queues, intr_pc, lo_sent, net_in, handled, id_log>>

netvars == <<net_protocols, ip_protocols, subscribers, ip_rx, net_rv, route_rv, lockvars,
             drvvars>>

vars == <<tcpvars, udpvars, ipvars, netvars, budget>>

PcbIds == 0 .. (TCP_PCB_SIZE - 1)

\* a struct tcp_pcb of all-zero bytes (static storage, or after memset)
ZeroPcb ==
    [state   |-> TCP_PCB_STATE_FREE,
     local   |-> Endpoint(IP_ADDR_ANY, 0),
     foreign |-> Endpoint(IP_ADDR_ANY, 0),
     snd     |-> [nxt |-> Zero32, una |-> Zero32, wnd |-> 0,
                  wl1 |-> Zero32, wl2 |-> Zero32],
     iss     |-> Zero32,
     rcv     |-> [nxt |-> Zero32, wnd |-> 0],
     irs     |-> Zero32,
     buf     |-> Bytes(0, TCP_BUF_SIZE),
     ctx     |-> [interrupted |-> 0, wc |-> 0]]

\* a thread that is in no call
IdleThread ==
    [pc     |-> "idle",   \* idle | open | send | receive | destroy
     id     |-> -1,       \* the PCB slot the call works on
     woken  |-> FALSE,    \* the condition variable has released the thread
     orphan |-> FALSE,    \* the condition variable was destroyed under it
     state  |-> 0,        \* tcp_open_rfc793: int state
     data   |-> <<>>,     \* tcp_send: data, len = BLen(data)
     sent   |-> 0,        \* tcp_send: sent
     size   |-> 0,        \* tcp_receive: size
     op     |-> "none",   \* inside pthread_cond_destroy: the call to return from,
     ret    |-> 0,        \*   the value it returns
     errno  |-> 0]        \*   and the errno it has set (0: none)

UdpPcbIds == 0 .. UDP_PCB_SIZE - 1

\* a struct udp_pcb of the zero-initialised table; queue: the entries, each
\* the foreign endpoint and the payload of a datagram
ZeroUdpPcb ==
    [state |-> UDP_PCB_STATE_FREE,
     local |-> Endpoint(IP_ADDR_ANY, 0),
     queue |-> <<>>,
     ctx   |-> [interrupted |-> 0, wc |-> 0]]

\* no call returned
NoReturn == [t |-> NoThread, op |-> "none", id |-> -1, ret |-> 0, errno |-> 0, out |-> <<>>]

\* the tables of the protocols with n steps of the environment (commands,
\* segments, EVENT interrupts, spurious wakeups) still to come, the ARP
\* table C, the clock at T and the next IP identification id
StartFrom(n, R, C, T, id) ==
    /\ tcp_mutex = NoThread
    /\ thr = [t \in Threads |-> IdleThread]
    /\ tx = <<>>
    /\ rv = NoReturn
    /\ budget = n
    /\ rxlog = [i \in PcbIds |-> <<>>]
    /\ rdlog = [i \in PcbIds |-> <<>>]
    /\ overrun = [i \in PcbIds |-> "none"]
    /\ udp_mutex = NoThread
    /\ uthr = [t \in Threads |-> IdleThread]
    /\ urv = NoReturn
    /\ routes = R
    /\ caches = C
    /\ ticks = T
    /\ arp_rx = NoMessage
    /\ arp_rv = NoResolve
    /\ frames = <<>>
    /\ ip_id = id
    /\ ip_rx = NoDelivery
    /\ net_rv = NoNetReturn
    /\ route_rv = NoLookup
    /\ holder = [m \in Mutexes |-> NoThread]
    /\ script = [t \in LockThreads |-> <<>>]

\* the signals intr_thread waits for: the soft interrupt (SIGUSR1) and the
\* IRQs of the loopback and the Ethernet device (real-time signals)
SOFTIRQ == "softirq"
LOOPBACK_IRQ == "loopback"
ETHER_IRQ == "ether"

Signals == {SOFTIRQ, LOOPBACK_IRQ, ETHER_IRQ}

\* the ethertypes that have a protocol after net_init
EtherTypes == {NET_PROTOCOL_TYPE_IP, NET_PROTOCOL_TYPE_ARP}

\* nothing was transmitted or received yet; log is the values
\* ip_generate_id has returned
DrvStart(log) ==
    /\ lo_queue = <<>>
    /\ pending = [s \in Signals |-> 0]
    /\ queues = [p \in EtherTypes |-> <<>>]
    /\ intr_pc = "wait"
    /\ lo_sent = <<>>
    /\ net_in = <<>>
    /\ handled = <<>>
    /\ id_log = log

\* the ARP table is static storage, every entry FREE, and the first IP
\* identification is 128
StartRest(n, R) ==
    /\ StartFrom(n, R, [c \in CacheIds |-> FreeCache], 1, IP_ID_FIRST)
    /\ DrvStart(<<>>)

\* the PCB tables with every slot FREE, and the registrations of net_init
\* and tcp_init
StackStart ==
    /\ pcbs = [i \in PcbIds |-> ZeroPcb]
    /\ udp_pcbs = [i \in UdpPcbIds |-> ZeroUdpPcb]
    /\ net_protocols = <<NET_PROTOCOL_TYPE_IP, NET_PROTOCOL_TYPE_ARP>>
    /\ ip_protocols = <<IP_PROTOCOL_TCP, IP_PROTOCOL_UDP, IP_PROTOCOL_ICMP>>
    /\ subscribers = <<IP_PROTOCOL_TCP, IP_PROTOCOL_UDP>>

\* both PCB tables are static storage: every slot FREE
StartTables(n, R) ==
    /\ StartRest(n, R)
    /\ pcbs = [i \in PcbIds |-> ZeroPcb]
    /\ udp_pcbs = [i \in UdpPcbIds |-> ZeroUdpPcb]

\* the stack after net_init, tcp_init and net_run
StartWith(n, R) ==
    /\ StartTables(n, R)
    /\ net_protocols = <<NET_PROTOCOL_TYPE_IP, NET_PROTOCOL_TYPE_ARP>>
    /\ ip_protocols = <<IP_PROTOCOL_TCP, IP_PROTOCOL_UDP, IP_PROTOCOL_ICMP>>
    /\ subscribers = <<IP_PROTOCOL_TCP, IP_PROTOCOL_UDP>>

\* the setup without a default gateway
Start(n) == StartWith(n, OnLinkRoutes)

Init == Start(MaxSteps)

\* the part of the state a handler works on; every handler starts with
\* nothing handed to ip_output yet
Machine ==
    [pcbs |-> pcbs, thr |-> thr, tx |-> <<>>, rv |-> NoReturn,
     rxlog |-> rxlog, rdlog |-> rdlog, overrun |-> overrun]

(***************************************************************************)
(* Scheduler contexts (platform/linux/sched.c).  The condition variable is *)
(* the set of threads blocked in pthread_cond_wait on it: those whose pc   *)
(* is a sleeping call on the slot and that are neither woken nor orphaned. *)
(***************************************************************************)
Sleeping(T, t) == T[t].pc \in {"open", "send", "receive"}

Waiters(T, i) ==
    {t \in Threads : Sleeping(T, t) /\ T[t].id = i /\ ~T[t].woken /\ ~T[t].orphan}

sched_ctx_init(ctx) == [interrupted |-> 0, wc |-> 0]

\* pthread_cond_broadcast
cond_broadcast(T, i) ==
    [t \in Threads |-> IF t \in Waiters(T, i) THEN [T[t] EXCEPT !.woken = TRUE] ELSE T[t]]

sched_wakeup(M, i) == [M EXCEPT !.thr = cond_broadcast(M.thr, i)]

sched_interrupt(M, i) ==
    [M EXCEPT !.pcbs[i].ctx.interrupted = 1, !.thr = cond_broadcast(M.thr, i)]

\* The outcomes of pthread_cond_destroy.  With no thread blocked on the
\* condition variable it returns 0.  With threads blocked on it the call is
\* undefined: it returns 0, or returns EBUSY (16), or waits for the blocked
\* threads to leave ("hang").  It never returns -1.
DestroyOutcomes(T, i) ==
    IF Waiters(T, i) = {} THEN {"ok"} ELSE {"ok", "busy", "hang"}

sched_ctx_destroy(o) == IF o = "busy" THEN 16 ELSE 0

\* the threads blocked on a condition variable whose memory is torn down stay
\* blocked on what is no longer a condition variable
Orphan(T, i) ==
    [t \in Threads |-> IF t \in Waiters(T, i) THEN [T[t] EXCEPT !.orphan = TRUE] ELSE T[t]]

(***************************************************************************)
(* TCP protocol control blocks.                                            *)
(***************************************************************************)
TCP_FLG_ISSET(x, y) == x \cap y # {}

\* A faulty tcp_pcb_alloc that takes the last slot over when none is FREE;
\* C25 has to tell it from the real one.
TcpPcbAllocTakeOver(P) ==
    IF \E i \in PcbIds : P[i].state = TCP_PCB_STATE_FREE
    THEN CHOOSE i \in PcbIds :
            /\ P[i].state = TCP_PCB_STATE_FREE
            /\ \A j \in PcbIds : P[j].state = TCP_PCB_STATE_FREE => i <= j
    ELSE TCP_PCB_SIZE - 1

\* the lowest FREE slot, or NULL
tcp_pcb_alloc_slot(P) ==
    IF \E i \in PcbIds : P[i].state = TCP_PCB_STATE_FREE
    THEN CHOOSE i \in PcbIds :
            /\ P[i].state = TCP_PCB_STATE_FREE
            /\ \A j \in PcbIds : P[j].state = TCP_PCB_STATE_FREE => i <= j
    ELSE NULL

tcp_pcb_alloc(M, i) ==
    [M EXCEPT !.pcbs[i].state = TCP_PCB_STATE_CLOSED,
              !.pcbs[i].ctx = sched_ctx_init(M.pcbs[i].ctx)]

\* tcp_pcb_release once sched_ctx_destroy has returned r
tcp_pcb_release(M, i, r) ==
    IF r = -1
    THEN sched_wakeup(M, i)
    ELSE [M EXCEPT !.pcbs[i] = ZeroPcb, !.thr = Orphan(M.thr, i),
                   !.rxlog[i] = <<>>, !.rdlog[i] = <<>>, !.overrun[i] = "none"]

tcp_pcb_get(P, id) ==
    IF id < 0 \/ id >= TCP_PCB_SIZE THEN NULL
    ELSE IF P[id].state = TCP_PCB_STATE_FREE THEN NULL
    ELSE id

\* the slots whose local endpoint matches, in table order
LocalMatch(P, local) ==
    {i \in PcbIds : /\ (P[i].local.addr = IP_ADDR_ANY \/ P[i].local.addr = local.addr)
                    /\ P[i].local.port = local.port}

ForeignMatch(P, i, foreign) ==
    P[i].foreign.addr = foreign.addr /\ P[i].foreign.port = foreign.port

ListenAny(P, i) ==
    /\ P[i].state = TCP_PCB_STATE_LISTEN
    /\ P[i].foreign.addr = IP_ADDR_ANY
    /\ P[i].foreign.port = 0

Lowest(S) == CHOOSE i \in S : \A j \in S : i <= j

Highest(S) == CHOOSE i \in S : \A j \in S : j <= i

\* the first slot that matches both endpoints; failing that the last LISTEN
\* slot with a wildcard foreign endpoint that the loop passes; or NULL
tcp_pcb_select(P, local, foreign) ==
    LET exact == {i \in LocalMatch(P, local) : ForeignMatch(P, i, foreign)}
        listen == {i \in LocalMatch(P, local) : ListenAny(P, i)}
    IN  IF exact # {} THEN Lowest(exact)
        ELSE IF listen # {} THEN Highest(listen)
        ELSE NULL

\* one call of tcp_output_segment: the segment is handed to ip_output
tcp_output_segment(M, seq, ack, flg, wnd, data, local, foreign) ==
    [M EXCEPT !.tx = Append(@, [seq |-> seq, ack |-> ack, flg |-> flg, wnd |-> wnd,
                                data |-> data, src |-> local, dst |-> foreign])]

tcp_output(M, i, flg, data) ==
    LET pcb == M.pcbs[i]
        seq == IF TCP_FLG_ISSET(flg, {TCP_FLG_SYN}) THEN pcb.iss ELSE pcb.snd.nxt
    IN  tcp_output_segment(M, seq, pcb.rcv.nxt, flg, pcb.rcv.wnd, data,
                           pcb.local, pcb.foreign)

(***************************************************************************)
(* tcp_segment_arrives (rfc793 section 3.9, SEGMENT ARRIVES).              *)
(***************************************************************************)
\* bytes between the end of buf and ctx in struct tcp_pcb (buf ends at
\* offset 65595, ctx is 8-aligned): a write that runs past buf by no more
\* lands in padding
PadAfterBuf == 5

\* A faulty reset that acknowledges the sequence number alone.
SegNoPcbLenIgnored(M, seg, flags, local, foreign) ==
    IF TCP_FLG_ISSET(flags, {TCP_FLG_RST}) THEN M
    ELSE IF ~TCP_FLG_ISSET(flags, {TCP_FLG_ACK})
    THEN tcp_output_segment(M, Zero32, seg.seq,
                            {TCP_FLG_RST, TCP_FLG_ACK}, 0, <<>>, local, foreign)
    ELSE tcp_output_segment(M, seg.ack, Zero32, {TCP_FLG_RST}, 0, <<>>, local, foreign)

\* no PCB, or a CLOSED one
SegNoPcb(M, seg, flags, local, foreign) ==
    IF TCP_FLG_ISSET(flags, {TCP_FLG_RST}) THEN M
    ELSE IF ~TCP_FLG_ISSET(flags, {TCP_FLG_ACK})
    THEN tcp_output_segment(M, Zero32, Add32(seg.seq, seg.len),
                            {TCP_FLG_RST, TCP_FLG_ACK}, 0, <<>>, local, foreign)
    ELSE tcp_output_segment(M, seg.ack, Zero32, {TCP_FLG_RST}, 0, <<>>, local, foreign)

\* A faulty SYN processing that acknowledges the SYN without counting it;
\* C2 has to tell it from the real one.
SegListenSynNotCounted(M, i, seg, local, foreign, iss) ==
    LET M1 == [M EXCEPT !.pcbs[i].local = local,
                        !.pcbs[i].foreign = foreign,
                        !.pcbs[i].rcv.wnd = TCP_BUF_SIZE,
                        !.pcbs[i].rcv.nxt = seg.seq,
                        !.pcbs[i].irs = seg.seq,
                        !.pcbs[i].iss = iss]
        M2 == tcp_output(M1, i, {TCP_FLG_SYN, TCP_FLG_ACK}, <<>>)
    IN  [M2 EXCEPT !.pcbs[i].snd.nxt = Add32(iss, 1),
                   !.pcbs[i].snd.una = iss,
                   !.pcbs[i].state = TCP_PCB_STATE_SYN_RECEIVED]

\* the SYN processing of a LISTEN PCB, iss the value random() returns
SegListenSyn(M, i, seg, local, foreign, iss) ==
    LET M1 == [M EXCEPT !.pcbs[i].local = local,
                        !.pcbs[i].foreign = foreign,
                        !.pcbs[i].rcv.wnd = TCP_BUF_SIZE,
                        !.pcbs[i].rcv.nxt = Add32(seg.seq, 1),
                        !.pcbs[i].irs = seg.seq,
                        !.pcbs[i].iss = iss]
        M2 == tcp_output(M1, i, {TCP_FLG_SYN, TCP_FLG_ACK}, <<>>)
    IN  [M2 EXCEPT !.pcbs[i].snd.nxt = Add32(iss, 1),
                   !.pcbs[i].snd.una = iss,
                   !.pcbs[i].state = TCP_PCB_STATE_SYN_RECEIVED]

SegListen(M, i, seg, flags, local, foreign, iss) ==
    IF TCP_FLG_ISSET(flags, {TCP_FLG_RST}) THEN M
    ELSE IF TCP_FLG_ISSET(flags, {TCP_FLG_ACK})
    THEN tcp_output_segment(M, seg.ack, Zero32, {TCP_FLG_RST}, 0, <<>>, local, foreign)
    ELSE IF TCP_FLG_ISSET(flags, {TCP_FLG_SYN})
    THEN SegListenSyn(M, i, seg, local, foreign, iss)
    ELSE M

\* 1st check sequence number
InWindow(pcb, seq) ==
    Le32(pcb.rcv.nxt, seq) /\ Lt32(seq, Add32(pcb.rcv.nxt, pcb.rcv.wnd))

Acceptable(pcb, seg) ==
    IF seg.len = 0
    THEN IF pcb.rcv.wnd = 0 THEN seg.seq = pcb.rcv.nxt ELSE InWindow(pcb, seg.seq)
    ELSE IF pcb.rcv.wnd = 0 THEN FALSE
         ELSE \/ InWindow(pcb, seg.seq)
              \/ InWindow(pcb, Dec32(Add32(seg.seq, seg.len), 1))

\* what the memcpy of len bytes into the wnd free bytes of buf has written
\* past the end of buf so far: nothing, padding only, or the fields and
\* the objects that follow
Overrun(before, wnd, len) ==
    IF len > wnd + PadAfterBuf THEN "beyond"
    ELSE IF len > wnd /\ before = "none" THEN "padding"
    ELSE before

\* memcpy(pcb->buf + (sizeof(pcb->buf) - pcb->rcv.wnd), data, len): the
\* bytes that fit are stored, the others run past the end of buf
BufStore(buf, wnd, data) ==
    LET off == TCP_BUF_SIZE - wnd
        fits == MIN(BLen(data), wnd)
    IN  BCat(BCat(BTake(buf, off), BTake(data, fits)), BDrop(buf, off + fits))

\* A faulty text processing that leaves rcv.wnd as it was; C4 has to tell it
\* from the real one.
SegTextWindowKept(M, i, seg, data) ==
    LET pcb == M.pcbs[i]
        len == BLen(data)
    IN  IF pcb.state = TCP_PCB_STATE_ESTABLISHED /\ len # 0
        THEN LET M1 == [M EXCEPT !.pcbs[i].buf = BufStore(pcb.buf, pcb.rcv.wnd, data),
                                 !.pcbs[i].rcv.nxt = Add32(seg.seq, seg.len),
                                 !.rxlog[i] = BCat(@, data)]
                 M2 == tcp_output(M1, i, {TCP_FLG_ACK}, <<>>)
             IN  sched_wakeup(M2, i)
        ELSE M

\* 7th, process the segment text
SegText(M, i, seg, data) ==
    LET pcb == M.pcbs[i]
        len == BLen(data)
    IN  IF pcb.state = TCP_PCB_STATE_ESTABLISHED /\ len # 0
        THEN LET M1 == [M EXCEPT !.pcbs[i].buf = BufStore(pcb.buf, pcb.rcv.wnd, data),
                                 !.pcbs[i].rcv.nxt = Add32(seg.seq, seg.len),
                                 !.pcbs[i].rcv.wnd = U16(pcb.rcv.wnd - len),
                                 !.rxlog[i] = BCat(@, data),
                                 !.overrun[i] = Overrun(@, pcb.rcv.wnd, len)]
                 M2 == tcp_output(M1, i, {TCP_FLG_ACK}, <<>>)
             IN  sched_wakeup(M2, i)
        ELSE M

\* 5th check the ACK field, ESTABLISHED
SegEstablished(M, i, seg, data) ==
    LET pcb == M.pcbs[i]
    IN  IF Lt32(pcb.snd.una, seg.ack) /\ Le32(seg.ack, pcb.snd.nxt)
        THEN LET M1 == [M EXCEPT !.pcbs[i].snd.una = seg.ack]
                 M2 == IF \/ Lt32(pcb.snd.wl1, seg.seq)
                          \/ (pcb.snd.wl1 = seg.seq /\ Le32(pcb.snd.wl2, seg.ack))
                       THEN [M1 EXCEPT !.pcbs[i].snd.wnd = seg.wnd,
                                       !.pcbs[i].snd.wl1 = seg.seq,
                                       !.pcbs[i].snd.wl2 = seg.ack]
                       ELSE M1
             IN  SegText(M2, i, seg, data)
        ELSE IF Lt32(seg.ack, pcb.snd.una) THEN SegText(M, i, seg, data)
        ELSE IF Lt32(pcb.snd.nxt, seg.ack) THEN tcp_output(M, i, {TCP_FLG_ACK}, <<>>)
        ELSE SegText(M, i, seg, data)

\* 5th check the ACK field; SYN_RECEIVED falls through into ESTABLISHED
SegAck(M, i, seg, data, local, foreign) ==
    LET pcb == M.pcbs[i]
    IN  IF pcb.state = TCP_PCB_STATE_SYN_RECEIVED
        THEN IF Le32(pcb.snd.una, seg.ack) /\ Le32(seg.ack, pcb.snd.nxt)
             THEN SegEstablished(
                      sched_wakeup([M EXCEPT !.pcbs[i].state = TCP_PCB_STATE_ESTABLISHED], i),
                      i, seg, data)
             ELSE tcp_output_segment(M, seg.ack, Zero32, {TCP_FLG_RST}, 0, <<>>,
                                     local, foreign)
        ELSE IF pcb.state = TCP_PCB_STATE_ESTABLISHED
        THEN SegEstablished(M, i, seg, data)
        ELSE SegText(M, i, seg, data)

\* A faulty first check that answers every unacceptable segment, a reset
\* too; C33 has to tell it from the real one.
SegOtherwiseAnswersRst(M, i, seg, flags, data, local, foreign) ==
    LET pcb == M.pcbs[i]
    IN  IF /\ pcb.state \in {TCP_PCB_STATE_SYN_RECEIVED, TCP_PCB_STATE_ESTABLISHED}
           /\ ~Acceptable(pcb, seg)
        THEN tcp_output(M, i, {TCP_FLG_ACK}, <<>>)
        ELSE IF ~TCP_FLG_ISSET(flags, {TCP_FLG_ACK}) THEN M
        ELSE SegAck(M, i, seg, data, local, foreign)

SegOtherwise(M, i, seg, flags, data, local, foreign) ==
    LET pcb == M.pcbs[i]
    IN  IF /\ pcb.state \in {TCP_PCB_STATE_SYN_RECEIVED, TCP_PCB_STATE_ESTABLISHED}
           /\ ~Acceptable(pcb, seg)
        THEN IF ~TCP_FLG_ISSET(flags, {TCP_FLG_RST})
             THEN tcp_output(M, i, {TCP_FLG_ACK}, <<>>)
             ELSE M
        ELSE IF ~TCP_FLG_ISSET(flags, {TCP_FLG_ACK}) THEN M
        ELSE SegAck(M, i, seg, data, local, foreign)

tcp_segment_arrives(M, seg, flags, data, local, foreign, iss) ==
    LET i == tcp_pcb_select(M.pcbs, local, foreign)
    IN  IF i = NULL THEN SegNoPcb(M, seg, flags, local, foreign)
        ELSE IF M.pcbs[i].state = TCP_PCB_STATE_CLOSED
        THEN SegNoPcb(M, seg, flags, local, foreign)
        ELSE IF M.pcbs[i].state = TCP_PCB_STATE_LISTEN
        THEN SegListen(M, i, seg, flags, local, foreign, iss)
        ELSE IF M.pcbs[i].state = TCP_PCB_STATE_SYN_SENT THEN M
        ELSE SegOtherwise(M, i, seg, flags, data, local, foreign)

\* seg.len as tcp_input computes it: a uint16_t
SegLen(flags, data) ==
    U16(BLen(data) + (IF TCP_FLG_ISSET(flags, {TCP_FLG_SYN}) THEN 1 ELSE 0)
                   + (IF TCP_FLG_ISSET(flags, {TCP_FLG_FIN}) THEN 1 ELSE 0))

\* tcp_input of a segment h with a valid checksum from address src to address
\* dst, both unicast; h.src.port and h.dst.port are the ports of its header
tcp_input(M, h, src, dst, iss) ==
    tcp_segment_arrives(M,
        [seq |-> h.seq, ack |-> h.ack, len |-> SegLen(h.flg, h.data), wnd |-> h.wnd],
        h.flg, h.data, Endpoint(dst, h.dst.port), Endpoint(src, h.src.port), iss)

(***************************************************************************)
(* sched_sleep, in its two halves: up to pthread_cond_wait, and from the   *)
(* wakeup on.                                                              *)
(***************************************************************************)
\* sched_sleep returns -1 at once: the context is marked interrupted
SleepRefused(M, i) == M.pcbs[i].ctx.interrupted # 0

\* ctx->wc++ and pthread_cond_wait: thread t blocks in call pc
SleepBlock(M, t, i, pc, locals) ==
    [M EXCEPT !.pcbs[i].ctx.wc = @ + 1,
              !.thr[t] = [locals EXCEPT !.pc = pc, !.id = i,
                                        !.woken = FALSE, !.orphan = FALSE]]

\* the value sched_sleep returns after pthread_cond_wait
SleepRet(M, i) == IF M.pcbs[i].ctx.interrupted # 0 THEN -1 ELSE 0

\* ctx->wc--, and the last interrupted sleeper clears the flag
SleepWake(M, i) ==
    LET wc == M.pcbs[i].ctx.wc - 1
    IN  [M EXCEPT !.pcbs[i].ctx.wc = wc,
                  !.pcbs[i].ctx.interrupted =
                      IF @ # 0 /\ wc = 0 THEN 0 ELSE @]

(***************************************************************************)
(* Devices, ARP and IP output (net.c, arp.c, ip.c).  These work on the     *)
(* record N of the ARP table, the clock and the frames handed to the       *)
(* devices so far in the step; drv is what the driver's transmit returns.  *)
(***************************************************************************)
NetMachine == [caches |-> caches, ticks |-> ticks, frames |-> <<>>, id |-> ip_id]

\* a function's result: the state it leaves and the value it returns
Result(N, ret) == [N |-> N, ret |-> ret]

net_device_output(N, dev, type, data, len, dst, drv) ==
    IF ~dev.up THEN Result(N, -1)
    ELSE IF len > dev.mtu THEN Result(N, -1)
    ELSE IF drv = -1 THEN Result(N, -1)
    ELSE Result([N EXCEPT !.frames = Append(@, [dev |-> dev.name, type |-> type,
                                                dst |-> dst, data |-> data])], 0)

\* gettimeofday(&cache->timestamp, NULL)
Stamp(N, c) == [N EXCEPT !.caches[c].timestamp = N.ticks, !.ticks = @ + 1]

arp_cache_delete(N, c) == [N EXCEPT !.caches[c] = FreeCache]

\* A faulty choice that keeps the comparison of timercmp the other way
\* round and so takes over the entry stamped last.
ArpCacheAllocNewest(C) ==
    IF \E c \in CacheIds : C[c].state = ARP_CACHE_STATE_FREE
    THEN Lowest({c \in CacheIds : C[c].state = ARP_CACHE_STATE_FREE})
    ELSE Lowest({c \in CacheIds : \A d \in CacheIds : C[c].timestamp >= C[d].timestamp})

\* the entry arp_cache_alloc returns: the first FREE one, or else the first
\* of those with the oldest timestamp
arp_cache_alloc_slot(C) ==
    IF \E c \in CacheIds : C[c].state = ARP_CACHE_STATE_FREE
    THEN Lowest({c \in CacheIds : C[c].state = ARP_CACHE_STATE_FREE})
    ELSE Lowest({c \in CacheIds : \A d \in CacheIds : C[c].timestamp <= C[d].timestamp})

\* arp_cache_alloc deletes the entry it takes over
arp_cache_alloc(N) ==
    LET c == arp_cache_alloc_slot(N.caches)
    IN  Result(IF N.caches[c].state = ARP_CACHE_STATE_FREE THEN N
               ELSE arp_cache_delete(N, c), c)

arp_cache_select(C, pa) ==
    LET match == {c \in CacheIds : C[c].state # ARP_CACHE_STATE_FREE /\ C[c].pa = pa}
    IN  IF match # {} THEN Lowest(match) ELSE NULL

arp_cache_update(N, pa, ha) ==
    LET c == arp_cache_select(N.caches, pa)
    IN  IF c = NULL THEN Result(N, NULL)
        ELSE Result(Stamp([N EXCEPT !.caches[c].state = ARP_CACHE_STATE_RESOLVED,
                                    !.caches[c].ha = ha], c), c)

arp_cache_insert(N, pa, ha) ==
    LET a == arp_cache_alloc(N)
        c == a.ret
    IN  Result(Stamp([a.N EXCEPT !.caches[c].state = ARP_CACHE_STATE_RESOLVED,
                                 !.caches[c].pa = pa,
                                 !.caches[c].ha = ha], c), c)

\* the message of struct arp_ether_ip, its 16 bit fields in host order
ArpMessage(op, sha, spa, tha, tpa) ==
    [hrd |-> ARP_HRD_ETHER, pro |-> ARP_PRO_IP, hln |-> ETHER_ADDR_LEN,
     pln |-> IP_ADDR_LEN, op |-> op, sha |-> sha, spa |-> spa, tha |-> tha,
     tpa |-> tpa]

\* sizeof(struct arp_ether_ip)
ARP_MSG_SIZE == 28

arp_request(N, iface, tpa, drv) ==
    net_device_output(N, iface.dev, NET_PROTOCOL_TYPE_ARP,
                      ArpMessage(ARP_OP_REQUEST, iface.dev.addr, iface.unicast,
                                 ETHER_ADDR_ANY, tpa),
                      ARP_MSG_SIZE, iface.dev.broadcast, drv)

arp_reply(N, iface, tha, tpa, dst, drv) ==
    net_device_output(N, iface.dev, NET_PROTOCOL_TYPE_ARP,
                      ArpMessage(ARP_OP_REPLY, iface.dev.addr, iface.unicast, tha, tpa),
                      ARP_MSG_SIZE, dst, drv)

\* arp_resolve: the result carries the hardware address in ha
arp_resolve(N, iface, pa, drv) ==
    LET c == arp_cache_select(N.caches, pa)
        Res(M, ret, ha) == [N |-> M, ret |-> ret, ha |-> ha]
    IN  IF iface.dev.type # NET_DEVICE_TYPE_ETHERNET
        THEN Res(N, ARP_RESOLVE_ERROR, ETHER_ADDR_ANY)
        ELSE IF c = NULL
        THEN LET a == arp_cache_alloc(N)
                 N1 == Stamp([a.N EXCEPT !.caches[a.ret].state = ARP_CACHE_STATE_INCOMPLETE,
                                         !.caches[a.ret].pa = pa], a.ret)
             IN  Res(arp_request(N1, iface, pa, drv).N, ARP_RESOLVE_INCOMPLETE,
                     ETHER_ADDR_ANY)
        ELSE IF N.caches[c].state = ARP_CACHE_STATE_INCOMPLETE
        THEN Res(arp_request(N, iface, pa, drv).N, ARP_RESOLVE_INCOMPLETE, ETHER_ADDR_ANY)
        ELSE Res(N, ARP_RESOLVE_FOUND, N.caches[c].ha)

\* arp_input up to the end of its first locked part: the message is checked
\* and arp_cache_update has run; the result is what arp_input goes on with
arp_input_update(N, msg, len, iface) ==
    IF len < ARP_MSG_SIZE THEN Result(N, NoMessage)
    ELSE IF msg.hrd # ARP_HRD_ETHER \/ msg.hln # ETHER_ADDR_LEN THEN Result(N, NoMessage)
    ELSE IF msg.pro # ARP_PRO_IP \/ msg.pln # IP_ADDR_LEN THEN Result(N, NoMessage)
    ELSE LET u == arp_cache_update(N, msg.spa, msg.sha)
         IN  Result(u.N, [op |-> msg.op, sha |-> msg.sha, spa |-> msg.spa,
                          tpa |-> msg.tpa, iface |-> iface,
                          marge |-> IF u.ret # NULL THEN 1 ELSE 0])

\* arp_input from net_device_get_iface on, answering every REQUEST whatever
\* its target
ArpInputReplyAnyTarget(N, rx, drv) ==
    LET N1 == IF rx.iface # NULL_IFACE /\ rx.iface.unicast = rx.tpa /\ rx.marge = 0
              THEN arp_cache_insert(N, rx.spa, rx.sha).N ELSE N
    IN  IF rx.op = ARP_OP_REQUEST
        THEN arp_reply(N1, rx.iface, rx.sha, rx.spa, rx.sha, drv).N
        ELSE N1

\* arp_input from net_device_get_iface on
arp_input_reply(N, rx, drv) ==
    IF rx.iface # NULL_IFACE /\ rx.iface.unicast = rx.tpa
    THEN LET N1 == IF rx.marge = 0 THEN arp_cache_insert(N, rx.spa, rx.sha).N ELSE N
         IN  IF rx.op = ARP_OP_REQUEST
             THEN arp_reply(N1, rx.iface, rx.sha, rx.spa, rx.sha, drv).N
             ELSE N1
    ELSE N

\* arp_input with nothing running between its two locked parts
arp_input(N, msg, len, iface, drv) ==
    LET u == arp_input_update(N, msg, len, iface)
    IN  IF u.ret = NoMessage THEN u.N ELSE arp_input_reply(u.N, u.ret, drv)

\* ip_route_lookup: of the routes whose network holds dst, the first in the
\* list with the longest netmask
NULL_ROUTE == [network |-> -1]

\* A faulty lookup that lets every matching route replace the candidate.
RECURSIVE RouteScanLastMatch(_, _, _)
RouteScanLastMatch(R, dst, candidate) ==
    IF R = <<>> THEN candidate
    ELSE RouteScanLastMatch(Tail(R), dst,
                            IF MaskAnd(dst, Head(R).netmask) = Head(R).network
                            THEN Head(R) ELSE candidate)

RECURSIVE RouteScan(_, _, _)
RouteScan(R, dst, candidate) ==
    IF R = <<>> THEN candidate
    ELSE LET route == Head(R)
             take == /\ MaskAnd(dst, route.netmask) = route.network
                     /\ (candidate = NULL_ROUTE \/ candidate.netmask < route.netmask)
         IN  RouteScan(Tail(R), dst, IF take THEN route ELSE candidate)

ip_route_lookup(dst) == RouteScan(routes, dst, NULL_ROUTE)

\* the interface that routes to dst, or NULL
ip_route_get_iface(dst) ==
    LET route == ip_route_lookup(dst)
    IN  IF route = NULL_ROUTE THEN NULL_IFACE ELSE route.iface

ip_output_device(N, iface, data, len, dst, drv) ==
    IF iface.dev.need_arp /\ dst # iface.broadcast /\ dst # IP_ADDR_BROADCAST
    THEN LET res == arp_resolve(N, iface, dst, drv)
         IN  IF res.ret # ARP_RESOLVE_FOUND THEN Result(res.N, res.ret)
             ELSE net_device_output(res.N, iface.dev, NET_PROTOCOL_TYPE_IP, data, len,
                                    res.ha, drv)
    ELSE net_device_output(N, iface.dev, NET_PROTOCOL_TYPE_IP, data, len,
                           IF iface.dev.need_arp THEN iface.dev.broadcast
                           ELSE ETHER_ADDR_ANY, drv)

\* the datagram is the header fields that matter here and the payload
ip_output_core(N, iface, protocol, data, len, src, dst, nexthop, id, drv) ==
    ip_output_device(N, iface,
                     [protocol |-> protocol, src |-> src, dst |-> dst, id |-> id,
                      total |-> IP_HDR_SIZE_MIN + len, data |-> data],
                     IP_HDR_SIZE_MIN + len, nexthop, drv)

\* ret = id++ of a uint16_t
ip_generate_id(N) == Result([N EXCEPT !.id = (@ + 1) % Pow16], N.id)

\* A faulty ip_output that takes any source address.
IpOutputAnySource(N, protocol, data, len, src, dst, drv) ==
    LET route == ip_route_lookup(dst)
        iface == route.iface
        nexthop == IF route.nexthop # IP_ADDR_ANY THEN route.nexthop ELSE dst
    IN  IF src = IP_ADDR_ANY /\ dst = IP_ADDR_BROADCAST THEN Result(N, -1)
        ELSE IF route = NULL_ROUTE THEN Result(N, -1)
        ELSE IF iface.dev.mtu < IP_HDR_SIZE_MIN + len THEN Result(N, -1)
        ELSE LET g == ip_generate_id(N)
                 r == ip_output_core(g.N, iface, protocol, data, len, iface.unicast,
                                     dst, nexthop, g.ret, drv)
             IN  IF r.ret = -1 THEN Result(r.N, -1) ELSE Result(r.N, len)

ip_output(N, protocol, data, len, src, dst, drv) ==
    LET route == ip_route_lookup(dst)
        iface == route.iface
        nexthop == IF route.nexthop # IP_ADDR_ANY THEN route.nexthop ELSE dst
    IN  IF src = IP_ADDR_ANY /\ dst = IP_ADDR_BROADCAST THEN Result(N, -1)
        ELSE IF route = NULL_ROUTE THEN Result(N, -1)
        ELSE IF src # IP_ADDR_ANY /\ src # iface.unicast THEN Result(N, -1)
        ELSE IF iface.dev.mtu < IP_HDR_SIZE_MIN + len THEN Result(N, -1)
        ELSE LET g == ip_generate_id(N)
                 r == ip_output_core(g.N, iface, protocol, data, len, iface.unicast,
                                     dst, nexthop, g.ret, drv)
             IN  IF r.ret = -1 THEN Result(r.N, -1) ELSE Result(r.N, len)

(***************************************************************************)
(* TCP user commands.                                                      *)
(***************************************************************************)
\* mutex_unlock and return: thread t returns ret from call op(id), having
\* set errno to e (0: errno untouched) and copied out to the caller
Return(M, t, op, id, ret, e, out) ==
    [M EXCEPT !.thr[t] = IdleThread,
              !.rv = [t |-> t, op |-> op, id |-> id, ret |-> ret, errno |-> e, out |-> out]]

\* tcp_pcb_release(pcb) followed by mutex_unlock and return ret, for the
\* outcome o of pthread_cond_destroy; when that call waits for the blocked
\* threads, thread t stays in it, holding the mutex
ReleaseAndReturn(M, t, i, o, op, ret, e) ==
    IF o = "hang" /\ Waiters(M.thr, i) # {}
    THEN [M EXCEPT !.thr[t] = [IdleThread EXCEPT !.pc = "destroy", !.id = i,
                                   !.op = op, !.ret = ret, !.errno = e]]
    ELSE Return(tcp_pcb_release(M, i, sched_ctx_destroy(o)), t, op, i, ret, e, <<>>)

\* tcp_open_rfc793: the failure paths of the wait
OpenFail(M, t, i, e, o) ==
    ReleaseAndReturn([M EXCEPT !.pcbs[i].state = TCP_PCB_STATE_CLOSED],
                     t, i, o, "open", ERROR, e)

\* tcp_open_rfc793: sched_sleep inside while (pcb->state == state)
OpenSleep(M, t, i, state, o) ==
    IF SleepRefused(M, i) THEN OpenFail(M, t, i, EINTR, o)
    ELSE SleepBlock(M, t, i, "open", [IdleThread EXCEPT !.state = state])

\* A faulty tcp_open_rfc793 that returns as soon as the PCB has left LISTEN;
\* C1 has to tell it from the real one.
OpenCheckNoRecheck(M, t, i, state, o) ==
    LET pcb == M.pcbs[i]
    IN  IF pcb.state = state THEN OpenSleep(M, t, i, state, o)
        ELSE IF pcb.state \notin {TCP_PCB_STATE_SYN_RECEIVED, TCP_PCB_STATE_ESTABLISHED}
        THEN OpenFail(M, t, i, 0, o)
        ELSE Return(M, t, "open", i, i, 0, <<>>)

\* tcp_open_rfc793 from the test of while (pcb->state == state) on
OpenCheck(M, t, i, state, o) ==
    LET pcb == M.pcbs[i]
    IN  IF pcb.state = state THEN OpenSleep(M, t, i, state, o)
        ELSE IF pcb.state # TCP_PCB_STATE_ESTABLISHED
        THEN IF pcb.state = TCP_PCB_STATE_SYN_RECEIVED
             THEN OpenSleep(M, t, i, TCP_PCB_STATE_SYN_RECEIVED, o)
             ELSE OpenFail(M, t, i, 0, o)
        ELSE Return(M, t, "open", i, i, 0, <<>>)

tcp_open_rfc793(M, t, local, foreign, active, o) ==
    LET i == tcp_pcb_alloc_slot(M.pcbs)
    IN  IF i = NULL THEN Return(M, t, "open", NULL, ERROR, 0, <<>>)
        ELSE LET M1 == tcp_pcb_alloc(M, i)
             IN  IF active
                 THEN ReleaseAndReturn(M1, t, i, o, "open", ERROR, 0)
                 ELSE LET M2 == [M1 EXCEPT
                                   !.pcbs[i].local = local,
                                   !.pcbs[i].foreign =
                                       IF foreign = NULL_ENDPOINT THEN @ ELSE foreign,
                                   !.pcbs[i].state = TCP_PCB_STATE_LISTEN]
                      IN  OpenCheck(M2, t, i, TCP_PCB_STATE_LISTEN, o)

tcp_close(M, t, id, o) ==
    LET i == tcp_pcb_get(M.pcbs, id)
    IN  IF i = NULL THEN Return(M, t, "close", id, ERROR, 0, <<>>)
        ELSE ReleaseAndReturn(tcp_output(M, i, {TCP_FLG_RST}, <<>>),
                              t, i, o, "close", 0, 0)

\* cap = pcb->snd.wnd - (pcb->snd.nxt - pcb->snd.una): the uint32_t
\* difference, widened to size_t
SendCap(pcb) == Sub32(U32(0, pcb.snd.wnd), Sub32(pcb.snd.nxt, pcb.snd.una))

\* tcp_send: while (sent < len); ipfail: the next ip_output returns -1
RECURSIVE SendLoop(_, _, _, _, _, _, _, _)
SendLoop(M, t, i, data, sent, mss, ipfail, o) ==
    LET pcb == M.pcbs[i]
        len == BLen(data)
        cap == SendCap(pcb)
        slen == MinCap(MIN(mss, len - sent), cap)
    IN  IF ~(sent < len) THEN Return(M, t, "send", i, sent, 0, <<>>)
        ELSE IF cap = Zero32
        THEN IF SleepRefused(M, i)
             THEN IF sent = 0 THEN Return(M, t, "send", i, ERROR, EINTR, <<>>)
                  ELSE Return(M, t, "send", i, sent, 0, <<>>)
             ELSE SleepBlock(M, t, i, "send",
                             [IdleThread EXCEPT !.data = data, !.sent = sent])
        ELSE LET M1 == tcp_output(M, i, {TCP_FLG_ACK, TCP_FLG_PSH},
                                  BSub(data, sent, sent + slen))
             IN  IF ipfail
                 THEN ReleaseAndReturn(
                          [M1 EXCEPT !.pcbs[i].state = TCP_PCB_STATE_CLOSED],
                          t, i, o, "send", ERROR, 0)
                 ELSE SendLoop([M1 EXCEPT !.pcbs[i].snd.nxt = Add32(@, slen)],
                               t, i, data, sent + slen, mss, FALSE, o)

\* tcp_send from the label RETRY on
SendRetry(M, t, i, data, sent, ipfail, o) ==
    LET pcb == M.pcbs[i]
        iface == ip_route_get_iface(pcb.foreign.addr)
    IN  IF pcb.state # TCP_PCB_STATE_ESTABLISHED
        THEN Return(M, t, "send", i, ERROR, 0, <<>>)
        ELSE IF iface = NULL_IFACE THEN Return(M, t, "send", i, ERROR, 0, <<>>)
        ELSE SendLoop(M, t, i, data, sent,
                      iface.dev.mtu - (IP_HDR_SIZE_MIN + TCP_HDR_SIZE), ipfail, o)

tcp_send(M, t, id, data, ipfail, o) ==
    LET i == tcp_pcb_get(M.pcbs, id)
    IN  IF i = NULL THEN Return(M, t, "send", id, ERROR, 0, <<>>)
        ELSE SendRetry(M, t, i, data, 0, ipfail, o)

\* memmove(pcb->buf, pcb->buf + len, remain - len)
BufShift(buf, len, remain) ==
    BCat(BSub(buf, len, remain), BDrop(buf, remain - len))

\* tcp_receive from the label RETRY on
ReceiveRetry(M, t, i, size) ==
    LET pcb == M.pcbs[i]
        remain == TCP_BUF_SIZE - pcb.rcv.wnd
        len == MIN(size, remain)
    IN  IF pcb.state # TCP_PCB_STATE_ESTABLISHED
        THEN Return(M, t, "receive", i, ERROR, 0, <<>>)
        ELSE IF remain = 0
        THEN IF SleepRefused(M, i)
             THEN Return(M, t, "receive", i, ERROR, EINTR, <<>>)
             ELSE SleepBlock(M, t, i, "receive",
                             [IdleThread EXCEPT !.size = size])
        ELSE Return([M EXCEPT !.pcbs[i].buf = BufShift(pcb.buf, len, remain),
                              !.pcbs[i].rcv.wnd = U16(pcb.rcv.wnd + len),
                              !.rdlog[i] = BCat(@, BTake(pcb.buf, len))],
                    t, "receive", i, len, 0, BTake(pcb.buf, len))

tcp_receive(M, t, id, size) ==
    LET i == tcp_pcb_get(M.pcbs, id)
    IN  IF i = NULL THEN Return(M, t, "receive", id, ERROR, 0, <<>>)
        ELSE ReceiveRetry(M, t, i, size)

\* A faulty wakeup whose interrupted tcp_send forgets what it has sent; C13
\* has to tell it from the real one.
WakeupCountLost(M, t, ipfail, o) ==
    LET i == M.thr[t].id
        r == SleepRet(M, i)
        M1 == SleepWake(M, i)
        me == M.thr[t]
    IN  CASE me.pc = "open" ->
                IF r = -1 THEN OpenFail(M1, t, i, EINTR, o)
                ELSE OpenCheck(M1, t, i, me.state, o)
          [] me.pc = "send" ->
                IF r = -1 THEN Return(M1, t, "send", i, ERROR, EINTR, <<>>)
                ELSE SendRetry(M1, t, i, me.data, me.sent, ipfail, o)
          [] me.pc = "receive" ->
                IF r = -1 THEN Return(M1, t, "receive", i, ERROR, EINTR, <<>>)
                ELSE ReceiveRetry(M1, t, i, me.size)

\* a thread leaves sched_sleep and runs on to its next sleep or its return
Wakeup(M, t, ipfail, o) ==
    LET i == M.thr[t].id
        r == SleepRet(M, i)
        M1 == SleepWake(M, i)
        me == M.thr[t]
    IN  CASE me.pc = "open" ->
                IF r = -1 THEN OpenFail(M1, t, i, EINTR, o)
                ELSE OpenCheck(M1, t, i, me.state, o)
          [] me.pc = "send" ->
                IF r = -1
                THEN IF me.sent = 0 THEN Return(M1, t, "send", i, ERROR, EINTR, <<>>)
                     ELSE Return(M1, t, "send", i, me.sent, 0, <<>>)
                ELSE SendRetry(M1, t, i, me.data, me.sent, ipfail, o)
          [] me.pc = "receive" ->
                IF r = -1 THEN Return(M1, t, "receive", i, ERROR, EINTR, <<>>)
                ELSE ReceiveRetry(M1, t, i, me.size)

\* TCP's subscriber to the EVENT interrupt
RECURSIVE InterruptAll(_, _)
InterruptAll(M, ids) ==
    IF ids = {} THEN M
    ELSE LET i == Lowest(ids)
         IN  InterruptAll(sched_interrupt(M, i), ids \ {i})

\* A faulty event_handler that passes over the PCBs without a connection;
\* C12 has to tell it from the real one.
EventHandlerConnectedOnly(M) ==
    InterruptAll(M, {i \in PcbIds : M.pcbs[i].state = TCP_PCB_STATE_ESTABLISHED})

event_handler(M) ==
    InterruptAll(M, {i \in PcbIds : M.pcbs[i].state # TCP_PCB_STATE_FREE})

(***************************************************************************)
(* The segments the peers send.  Sequence and acknowledgment numbers are   *)
(* taken around the values the PCBs expect, so that every comparison of    *)
(* tcp_segment_arrives is met from both sides.                             *)
(***************************************************************************)
Seg(seq, ack, flg, wnd, data, src, dst) ==
    [seq |-> seq, ack |-> ack, flg |-> flg, wnd |-> wnd, data |-> data,
     src |-> src, dst |-> dst]

SynDone == {i \in PcbIds : pcbs[i].state \in {TCP_PCB_STATE_SYN_RECEIVED,
                                              TCP_PCB_STATE_ESTABLISHED}}

AckChoices(pcb) ==
    {Dec32(pcb.snd.una, 1), pcb.snd.una, Add32(pcb.snd.una, 1),
     pcb.snd.nxt, Add32(pcb.snd.nxt, 1)}

SegWindows == {0, 2}

\* the SYN that opens a connection to the echo port
SynSegs ==
    {Seg(irs, Zero32, {TCP_FLG_SYN}, 8192, <<>>, Peer, Endpoint(a, 7)) :
        irs \in IrsValues, a \in HostAddrs}

\* segments of no connection: from a host that has none, to the echo port
\* and to a port nobody listens on
StraySegs ==
    {Seg(U32(0, 2000), U32(0, 101), fl, 2, <<>>, Stranger, Endpoint(a, p)) :
        fl \in {{TCP_FLG_ACK}, {TCP_FLG_RST}},
        a \in HostAddrs, p \in {7, 9}}

\* in-order segments without text: every acknowledgment and window
AckSegs(pcb) ==
    {Seg(pcb.rcv.nxt, a, {TCP_FLG_ACK}, w, <<>>, pcb.foreign, pcb.local) :
        a \in AckChoices(pcb), w \in SegWindows}

\* text of every length: in order, ahead of rcv.nxt and behind it
TextSegs(pcb) ==
    {Seg(q, pcb.snd.nxt, {TCP_FLG_ACK, TCP_FLG_PSH}, 2, d, pcb.foreign, pcb.local) :
        q \in {Dec32(pcb.rcv.nxt, 1), pcb.rcv.nxt, Add32(pcb.rcv.nxt, 1)},
        d \in SegPayloads}

\* the other control bits, and text that acknowledges what was never sent
CtlSegs(pcb) ==
    {Seg(pcb.rcv.nxt, pcb.snd.nxt, {TCP_FLG_RST}, 2, <<>>, pcb.foreign, pcb.local),
     Seg(pcb.rcv.nxt, pcb.snd.nxt, {}, 2, Bytes(97, 1), pcb.foreign, pcb.local),
     Seg(pcb.rcv.nxt, pcb.snd.nxt, {TCP_FLG_FIN, TCP_FLG_ACK}, 2, <<>>, pcb.foreign, pcb.local),
     Seg(pcb.rcv.nxt, pcb.snd.nxt, {TCP_FLG_FIN, TCP_FLG_ACK}, 2, Bytes(97, 1), pcb.foreign, pcb.local),
     Seg(pcb.rcv.nxt, pcb.snd.nxt, {TCP_FLG_SYN, TCP_FLG_ACK}, 2, Bytes(97, 1), pcb.foreign, pcb.local),
     Seg(pcb.rcv.nxt, Add32(pcb.snd.nxt, 1), {TCP_FLG_ACK}, 2, Bytes(97, 1), pcb.foreign, pcb.local)}

SegInputs ==
    SynSegs \cup StraySegs
            \cup UNION {AckSegs(pcbs[i]) \cup TextSegs(pcbs[i]) \cup CtlSegs(pcbs[i]) :
                           i \in SynDone}

(***************************************************************************)
(* Actions.                                                                *)
(***************************************************************************)
\* the step ends: the mutex is released, unless thread t is still inside
\* pthread_cond_destroy
Commit(M, t) ==
    /\ pcbs' = M.pcbs
    /\ thr' = M.thr
    /\ tx' = M.tx
    /\ rv' = M.rv
    /\ rxlog' = M.rxlog
    /\ rdlog' = M.rdlog
    /\ overrun' = M.overrun
    /\ tcp_mutex' = IF t # NoThread /\ M.thr[t].pc = "destroy" THEN t ELSE NoThread
    /\ UNCHANGED <<udpvars, ipvars, netvars>>

\* No write has gone past the padding that follows a receive buffer.  After
\* such a write the contents of the PCB table, and of what the linker placed
\* behind it, are not defined: the model follows the program no further.
Intact == \A i \in PcbIds : overrun[i] # "beyond"

\* outcomes of pthread_cond_destroy a step has to consider
Destroys == IF \E i \in PcbIds : Waiters(thr, i) # {} THEN {"ok", "busy", "hang"} ELSE {"ok"}

\* Idle threads are interchangeable: the next command is issued by the
\* first of them.
CanCall(t) ==
    /\ Intact
    /\ thr[t].pc = "idle"
    /\ \A u \in Threads : thr[u].pc = "idle" => ~ThreadBefore(u, t)
    /\ tcp_mutex = NoThread
    /\ budget > 0

\* thread t calls tcp_open_rfc793(local, foreign, active)
OpenCall(t, actives) ==
    /\ CanCall(t)
    /\ \E local \in OpenLocals, foreign \in OpenForeigns, active \in actives, o \in Destroys :
          Commit(tcp_open_rfc793(Machine, t, local, foreign, active, o), t)
    /\ budget' = budget - 1

CallOpen(t) == OpenCall(t, BOOLEAN)

\* socket ids the threads pass
CallIds == {0, 1}

\* thread t calls tcp_close(id)
CallClose(t) ==
    /\ CanCall(t)
    /\ \E id \in CallIds, o \in Destroys : Commit(tcp_close(Machine, t, id, o), t)
    /\ budget' = budget - 1

\* thread t calls tcp_send(id, data, len); fails: whether ip_output may fail
SendCall(t, ids, fails) ==
    /\ CanCall(t)
    /\ \E id \in ids, data \in SendPayloads, ipfail \in fails, o \in Destroys :
          Commit(tcp_send(Machine, t, id, data, ipfail, o), t)
    /\ budget' = budget - 1

CallSend(t) == SendCall(t, CallIds, BOOLEAN)

\* thread t calls tcp_receive(id, buf, size)
ReceiveCall(t, ids) ==
    /\ CanCall(t)
    /\ \E id \in ids, size \in RecvSizes : Commit(tcp_receive(Machine, t, id, size), t)
    /\ budget' = budget - 1

CallReceive(t) == ReceiveCall(t, CallIds)

\* thread t, released by the condition variable, takes the mutex and runs on
Resume(t) ==
    /\ Intact
    /\ Sleeping(thr, t)
    /\ thr[t].woken
    /\ tcp_mutex = NoThread
    /\ \E ipfail \in (IF thr[t].pc = "send" THEN BOOLEAN ELSE {FALSE}), o \in Destroys :
          Commit(Wakeup(Machine, t, ipfail, o), t)
    /\ UNCHANGED budget

\* pthread_cond_wait returns without a broadcast (a spurious wakeup, which
\* is also all that can end the wait on a destroyed condition variable)
SpuriousWakeup(t) ==
    /\ Intact
    /\ Sleeping(thr, t)
    /\ ~thr[t].woken
    /\ budget > 0
    /\ budget' = budget - 1
    /\ thr' = [thr EXCEPT ![t].woken = TRUE]
    /\ tx' = <<>>
    /\ rv' = NoReturn
    /\ UNCHANGED <<pcbs, tcp_mutex, rxlog, rdlog, overrun, udpvars, ipvars, netvars>>

\* pthread_cond_destroy, which waited for the blocked threads, returns 0
DestroyReturns(t) ==
    /\ Intact
    /\ thr[t].pc = "destroy"
    /\ tcp_mutex = t
    /\ Waiters(thr, thr[t].id) = {}
    /\ Commit(Return(tcp_pcb_release(Machine, thr[t].id, sched_ctx_destroy("ok")),
                     t, thr[t].op, thr[t].id, thr[t].ret, thr[t].errno, <<>>), t)
    /\ UNCHANGED budget

\* the dispatch thread runs tcp_input on a segment
Arrival(segs) ==
    /\ Intact
    /\ tcp_mutex = NoThread
    /\ budget > 0
    /\ \E h \in segs, iss \in IssValues :
          Commit(tcp_input(Machine, h, h.src.addr, h.dst.addr, iss), NoThread)
    /\ budget' = budget - 1

SegmentArrives == Arrival(SegInputs)

\* the dispatch thread runs TCP's event_handler
EventInterrupt ==
    /\ Intact
    /\ tcp_mutex = NoThread
    /\ budget > 0
    /\ Commit(event_handler(Machine), NoThread)
    /\ budget' = budget - 1

Next ==
    \/ \E t \in Threads : CallOpen(t)
    \/ \E t \in Threads : CallClose(t)
    \/ \E t \in Threads : CallSend(t)
    \/ \E t \in Threads : CallReceive(t)
    \/ \E t \in Threads : Resume(t)
    \/ \E t \in Threads : SpuriousWakeup(t)
    \/ \E t \in Threads : DestroyReturns(t)
    \/ SegmentArrives
    \/ EventInterrupt

Spec == Init /\ [][Next]_vars

\* a runnable thread gets the processor and the mutex
FairSpec ==
    /\ Spec
    /\ \A t \in Threads : WF_vars(Resume(t))
    /\ \A t \in Threads : WF_vars(DestroyReturns(t))

(***************************************************************************)
(* UDP (udp.c): the PCB table with its receive queues, the user commands   *)
(* udp_open, udp_bind, udp_close and udp_recvfrom, udp_input and the       *)
(* subscriber to the EVENT interrupt.  A datagram is the pair of its       *)
(* source endpoint and its payload, a sequence of bytes.                   *)
(***************************************************************************)
MaxUdpSteps == 5

\* endpoints the threads bind
UdpLocals == {Endpoint(IP_ADDR_ANY, 7), Endpoint(514, 7)}

\* destination ports of the datagrams that arrive
UdpPorts == {7, 9}

UdpPayloads == {<<>>, <<97>>, <<97, 98>>}

\* the part of the state a UDP handler works on
UdpMachine == [pcbs |-> udp_pcbs, thr |-> uthr, rv |-> NoReturn]

\* the lowest FREE slot, or NULL
udp_pcb_alloc_slot(P) ==
    IF \E i \in UdpPcbIds : P[i].state = UDP_PCB_STATE_FREE
    THEN Lowest({i \in UdpPcbIds : P[i].state = UDP_PCB_STATE_FREE})
    ELSE NULL

udp_pcb_alloc(M, i) ==
    [M EXCEPT !.pcbs[i].state = UDP_PCB_STATE_OPEN,
              !.pcbs[i].ctx = sched_ctx_init(M.pcbs[i].ctx)]

\* udp_pcb_release once sched_ctx_destroy has returned r
udp_pcb_release(M, i, r) ==
    IF r = -1
    THEN sched_wakeup([M EXCEPT !.pcbs[i].state = UDP_PCB_STATE_CLOSING], i)
    ELSE [M EXCEPT !.pcbs[i].state = UDP_PCB_STATE_FREE,
                   !.pcbs[i].local = Endpoint(IP_ADDR_ANY, 0),
                   !.pcbs[i].queue = <<>>,
                   !.thr = Orphan(M.thr, i)]

\* the first OPEN slot bound to the port at a matching address, or NULL
udp_pcb_select(P, addr, port) ==
    LET match == {i \in UdpPcbIds :
                     /\ P[i].state = UDP_PCB_STATE_OPEN
                     /\ (P[i].local.addr = IP_ADDR_ANY \/ addr = IP_ADDR_ANY
                           \/ P[i].local.addr = addr)
                     /\ P[i].local.port = port}
    IN  IF match # {} THEN Lowest(match) ELSE NULL

udp_pcb_get(P, id) ==
    IF id < 0 \/ id >= UDP_PCB_SIZE THEN NULL
    ELSE IF P[id].state # UDP_PCB_STATE_OPEN THEN NULL
    ELSE id

\* udp_input of a datagram with a valid length and checksum
udp_input(M, src, dst, data) ==
    LET i == udp_pcb_select(M.pcbs, dst.addr, dst.port)
    IN  IF i = NULL THEN M
        ELSE [M EXCEPT !.pcbs[i].queue = Append(@, [foreign |-> src, data |-> data])]

\* UDP's subscriber to the EVENT interrupt
udp_event_handler(M) ==
    InterruptAll(M, {i \in UdpPcbIds : M.pcbs[i].state = UDP_PCB_STATE_OPEN})

udp_open(M, t) ==
    LET i == udp_pcb_alloc_slot(M.pcbs)
    IN  IF i = NULL THEN Return(M, t, "open", NULL, ERROR, 0, <<>>)
        ELSE Return(udp_pcb_alloc(M, i), t, "open", i, i, 0, <<>>)

udp_bind(M, t, id, local) ==
    LET i == udp_pcb_get(M.pcbs, id)
    IN  IF i = NULL THEN Return(M, t, "bind", id, ERROR, 0, <<>>)
        ELSE IF udp_pcb_select(M.pcbs, local.addr, local.port) # NULL
        THEN Return(M, t, "bind", i, ERROR, 0, <<>>)
        ELSE Return([M EXCEPT !.pcbs[i].local = local], t, "bind", i, 0, 0, <<>>)

\* hton16 and ntoh16 on a little-endian host: the two bytes change places
hton16(h) == (h % 256) * 256 + (h \div 256)

\* sizeof(struct udp_hdr)
UDP_HDR_SIZE == 8

IP_PAYLOAD_SIZE_MAX == 65515

\* udp_output: the UDP header and the payload go to ip_output
udp_output(N, src, dst, data, drv) ==
    LET total == UDP_HDR_SIZE + Len(data)
        r == ip_output(N, IP_PROTOCOL_UDP,
                       [src |-> src.port, dst |-> dst.port, len |-> total, data |-> data],
                       total, src.addr, dst.addr, drv)
    IN  IF Len(data) > IP_PAYLOAD_SIZE_MAX - UDP_HDR_SIZE THEN Result(N, -1)
        ELSE IF r.ret = -1 THEN Result(r.N, -1)
        ELSE Result(r.N, Len(data))

\* A faulty port loop that takes the first port of the range whoever has
\* it; C17 has to tell it from the real one.
PortScanUnchecked(P, addr, p) == hton16(p)

\* the loop of udp_sendto over the source ports from p on: the first port,
\* in network byte order, that no OPEN PCB matches at addr, or 0
RECURSIVE PortScan(_, _, _)
PortScan(P, addr, p) ==
    IF p > UDP_SOURCE_PORT_MAX THEN 0
    ELSE IF udp_pcb_select(P, addr, hton16(p)) = NULL THEN hton16(p)
    ELSE PortScan(P, addr, p + 1)

\* udp_sendto; the result is the UDP state M and the network state N, and
\* what went to udp_output is kept in the return record
udp_sendto(M, N, t, id, data, foreign, drv) ==
    LET i == udp_pcb_get(M.pcbs, id)
        pcb == M.pcbs[i]
        iface == ip_route_get_iface(foreign.addr)
        addr == IF pcb.local.addr = IP_ADDR_ANY THEN iface.unicast ELSE pcb.local.addr
        port == IF pcb.local.port = 0 THEN PortScan(M.pcbs, addr, UDP_SOURCE_PORT_MIN)
                ELSE pcb.local.port
        M1 == [M EXCEPT !.pcbs[i].local.port = port]
        local == Endpoint(addr, port)
        r == udp_output(N, local, foreign, data, drv)
    IN  IF i = NULL THEN [M |-> Return(M, t, "sendto", id, ERROR, 0, <<>>), N |-> N]
        ELSE IF pcb.local.addr = IP_ADDR_ANY /\ iface = NULL_IFACE
        THEN [M |-> Return(M, t, "sendto", i, ERROR, 0, <<>>), N |-> N]
        ELSE IF port = 0
        THEN [M |-> Return(M, t, "sendto", i, ERROR, 0, <<>>), N |-> N]
        ELSE [M |-> Return(M1, t, "sendto", i, r.ret, 0,
                           [local |-> local, foreign |-> foreign, data |-> data]),
              N |-> r.N]

\* udp_pcb_release(pcb) followed by mutex_unlock and return ret, for the
\* outcome o of pthread_cond_destroy; when that call waits for the blocked
\* threads, thread t stays in it, holding the mutex, the PCB CLOSING
UdpReleaseAndReturn(M, t, i, o, op, ret, e) ==
    IF o = "hang" /\ Waiters(M.thr, i) # {}
    THEN [M EXCEPT !.pcbs[i].state = UDP_PCB_STATE_CLOSING,
                   !.thr[t] = [IdleThread EXCEPT !.pc = "destroy", !.id = i,
                                   !.op = op, !.ret = ret, !.errno = e]]
    ELSE Return(udp_pcb_release(M, i, sched_ctx_destroy(o)), t, op, i, ret, e, <<>>)

udp_close(M, t, id, o) ==
    LET i == udp_pcb_get(M.pcbs, id)
    IN  IF i = NULL THEN Return(M, t, "close", id, ERROR, 0, <<>>)
        ELSE UdpReleaseAndReturn(M, t, i, o, "close", 0, 0)

\* A faulty udp_recvfrom that puts the bytes that did not fit back at the
\* head of the queue; C16 has to tell it from the real one.
UdpRecvLoopKeepsRest(M, t, i, size) ==
    LET pcb == M.pcbs[i]
        entry == Head(pcb.queue)
        len == MIN(size, Len(entry.data))
        rest == [entry EXCEPT !.data = SubSeq(entry.data, len + 1, Len(entry.data))]
    IN  IF pcb.queue # <<>>
        THEN Return([M EXCEPT !.pcbs[i].queue =
                                  IF rest.data = <<>> THEN Tail(@) ELSE <<rest>> \o Tail(@)],
                    t, "recvfrom", i, len, 0,
                    [foreign |-> entry.foreign, data |-> SubSeq(entry.data, 1, len)])
        ELSE IF SleepRefused(M, i)
        THEN Return(M, t, "recvfrom", i, ERROR, EINTR, <<>>)
        ELSE [SleepBlock(M, t, i, "receive", [IdleThread EXCEPT !.size = size])
                 EXCEPT !.thr[t].orphan = (pcb.state = UDP_PCB_STATE_FREE)]

\* udp_recvfrom from queue_pop on: the head of the queue, cut to size, or
\* sched_sleep; a thread that sleeps on a released PCB waits on what is no
\* longer a condition variable
UdpRecvLoop(M, t, i, size) ==
    LET pcb == M.pcbs[i]
        entry == Head(pcb.queue)
        len == MIN(size, Len(entry.data))
    IN  IF pcb.queue # <<>>
        THEN Return([M EXCEPT !.pcbs[i].queue = Tail(@)], t, "recvfrom", i, len, 0,
                    [foreign |-> entry.foreign, data |-> SubSeq(entry.data, 1, len)])
        ELSE IF SleepRefused(M, i)
        THEN Return(M, t, "recvfrom", i, ERROR, EINTR, <<>>)
        ELSE [SleepBlock(M, t, i, "receive", [IdleThread EXCEPT !.size = size])
                 EXCEPT !.thr[t].orphan = (pcb.state = UDP_PCB_STATE_FREE)]

udp_recvfrom(M, t, id, size) ==
    LET i == udp_pcb_get(M.pcbs, id)
    IN  IF i = NULL THEN Return(M, t, "recvfrom", id, ERROR, 0, <<>>)
        ELSE UdpRecvLoop(M, t, i, size)

\* a thread leaves sched_sleep inside udp_recvfrom
UdpWakeup(M, t, o) ==
    LET i == M.thr[t].id
        r == SleepRet(M, i)
        M1 == SleepWake(M, i)
    IN  IF r = -1 THEN Return(M1, t, "recvfrom", i, ERROR, EINTR, <<>>)
        ELSE IF M1.pcbs[i].state = UDP_PCB_STATE_CLOSING
        THEN UdpReleaseAndReturn(M1, t, i, o, "recvfrom", ERROR, 0)
        ELSE UdpRecvLoop(M1, t, i, M.thr[t].size)

\* the step ends: the mutex is released, unless thread t is still inside
\* pthread_cond_destroy
UdpCommitPcbs(M, t) ==
    /\ udp_pcbs' = M.pcbs
    /\ uthr' = M.thr
    /\ urv' = M.rv
    /\ udp_mutex' = IF t # NoThread /\ M.thr[t].pc = "destroy" THEN t ELSE NoThread

UdpCommit(M, t) ==
    /\ UdpCommitPcbs(M, t)
    /\ UNCHANGED <<tcpvars, ipvars, netvars>>

UdpDestroys ==
    IF \E i \in UdpPcbIds : Waiters(uthr, i) # {} THEN {"ok", "busy", "hang"} ELSE {"ok"}

UdpCanCall(t) ==
    /\ uthr[t].pc = "idle"
    /\ \A u \in Threads : uthr[u].pc = "idle" => ~ThreadBefore(u, t)
    /\ udp_mutex = NoThread
    /\ budget > 0

UdpOpen(t) ==
    /\ UdpCanCall(t)
    /\ UdpCommit(udp_open(UdpMachine, t), t)
    /\ budget' = budget - 1

UdpBind(t) ==
    /\ UdpCanCall(t)
    /\ \E id \in CallIds, local \in UdpLocals :
          UdpCommit(udp_bind(UdpMachine, t, id, local), t)
    /\ budget' = budget - 1

UdpClose(t) ==
    /\ UdpCanCall(t)
    /\ \E id \in CallIds, o \in UdpDestroys : UdpCommit(udp_close(UdpMachine, t, id, o), t)
    /\ budget' = budget - 1

UdpRecvfrom(t) ==
    /\ UdpCanCall(t)
    /\ \E id \in CallIds, size \in RecvSizes :
          UdpCommit(udp_recvfrom(UdpMachine, t, id, size), t)
    /\ budget' = budget - 1

\* thread t, released by the condition variable, takes the mutex and runs on
UdpResume(t) ==
    /\ Sleeping(uthr, t)
    /\ uthr[t].woken
    /\ udp_mutex = NoThread
    /\ \E o \in UdpDestroys : UdpCommit(UdpWakeup(UdpMachine, t, o), t)
    /\ UNCHANGED budget

\* pthread_cond_wait returns without a broadcast
UdpSpuriousWakeup(t) ==
    /\ Sleeping(uthr, t)
    /\ ~uthr[t].woken
    /\ budget > 0
    /\ budget' = budget - 1
    /\ uthr' = [uthr EXCEPT ![t].woken = TRUE]
    /\ urv' = NoReturn
    /\ UNCHANGED <<udp_pcbs, udp_mutex, tcpvars, ipvars, netvars>>

\* pthread_cond_destroy, which waited for the blocked threads, returns 0
UdpDestroyReturns(t) ==
    /\ uthr[t].pc = "destroy"
    /\ udp_mutex = t
    /\ Waiters(uthr, uthr[t].id) = {}
    /\ UdpCommit(Return(udp_pcb_release(UdpMachine, uthr[t].id, sched_ctx_destroy("ok")),
                        t, uthr[t].op, uthr[t].id, uthr[t].ret, uthr[t].errno, <<>>), t)
    /\ UNCHANGED budget

\* the dispatch thread runs udp_input on a datagram
DatagramArrives ==
    /\ udp_mutex = NoThread
    /\ budget > 0
    /\ \E a \in HostAddrs, p \in UdpPorts, data \in UdpPayloads :
          UdpCommit(udp_input(UdpMachine, Peer, Endpoint(a, p), data), NoThread)
    /\ budget' = budget - 1

\* the dispatch thread runs UDP's event_handler
UdpEventInterrupt ==
    /\ udp_mutex = NoThread
    /\ budget > 0
    /\ UdpCommit(udp_event_handler(UdpMachine), NoThread)
    /\ budget' = budget - 1

UdpInit == Start(MaxUdpSteps)

UdpNext ==
    \/ \E t \in Threads : UdpOpen(t)
    \/ \E t \in Threads : UdpBind(t)
    \/ \E t \in Threads : UdpClose(t)
    \/ \E t \in Threads : UdpRecvfrom(t)
    \/ \E t \in Threads : UdpResume(t)
    \/ \E t \in Threads : UdpSpuriousWakeup(t)
    \/ \E t \in Threads : UdpDestroyReturns(t)
    \/ DatagramArrives
    \/ UdpEventInterrupt

UdpSpec == UdpInit /\ [][UdpNext]_vars

\* a runnable thread gets the processor and the mutex
UdpFairSpec ==
    /\ UdpSpec
    /\ \A t \in Threads : WF_vars(UdpResume(t))
    /\ \A t \in Threads : WF_vars(UdpDestroyReturns(t))

(***************************************************************************)
(* One connection used as a byte stream: a single thread opens the echo    *)
(* port, reads and writes; the peer sends its text in order and            *)
(* acknowledges what it has received, nothing is cancelled or closed.      *)
(***************************************************************************)
MaxStreamSteps == 6

StreamInputs ==
    SynSegs \cup {Seg(pcbs[i].rcv.nxt, pcbs[i].snd.nxt, {TCP_FLG_ACK, TCP_FLG_PSH}, 2, d,
                      pcbs[i].foreign, pcbs[i].local) :
                     i \in SynDone, d \in SegPayloads}
            \cup UNION {{Seg(pcbs[i].rcv.nxt, a, {TCP_FLG_ACK}, w, <<>>,
                             pcbs[i].foreign, pcbs[i].local) :
                            a \in {Add32(pcbs[i].snd.una, 1), pcbs[i].snd.nxt},
                            w \in SegWindows} : i \in SynDone}

StreamInit == Start(MaxStreamSteps)

StreamOpen == OpenCall("t1", {FALSE})

StreamReceive == ReceiveCall("t1", {0})

StreamSegment == Arrival(StreamInputs)

StreamSend == SendCall("t1", {0}, {FALSE})

StreamResume == Resume("t1")

StreamSpurious == SpuriousWakeup("t1")

StreamNext ==
    \/ StreamOpen
    \/ StreamReceive
    \/ StreamSend
    \/ StreamSegment
    \/ StreamResume
    \/ StreamSpurious

StreamSpec == StreamInit /\ [][StreamNext]_vars

(***************************************************************************)
(* UDP sockets that send: threads open, bind, send and close, over the     *)
(* routes of the test programs with or without the default gateway, and    *)
(* the peer's ARP reply arrives.  The frames handed to the devices in a    *)
(* step are in frames.                                                     *)
(***************************************************************************)
MaxSendtoSteps == 5

\* the first dynamic source port, as a PCB stores it
FirstPort == hton16(UDP_SOURCE_PORT_MIN)

\* endpoints the threads bind: the first dynamic port at each kind of address
SendtoLocals ==
    {Endpoint(IP_ADDR_ANY, FirstPort), Endpoint(LoopbackIface.unicast, FirstPort),
     Endpoint(EtherIface.unicast, FirstPort)}

\* destinations: the peer, the host itself over loopback, a host off the
\* interfaces' networks
SendtoForeigns == {Peer, Endpoint(LoopbackIface.unicast, 7), Stranger}

\* hardware address of the peer
PeerHa == 2

\* what the driver's transmit returns
DrvReturns == {0, -1}

\* the step ends for a UDP call that went down to ip_output
SendtoCommit(R, t) ==
    /\ UdpCommitPcbs(R.M, t)
    /\ caches' = R.N.caches
    /\ ticks' = R.N.ticks
    /\ frames' = R.N.frames
    /\ ip_id' = R.N.id
    /\ UNCHANGED <<tcpvars, netvars, routes, arp_rx, arp_rv>>

\* a UDP call that stays above ip_output
SendtoQuiet(M, t) ==
    /\ UdpCommitPcbs(M, t)
    /\ frames' = <<>>
    /\ UNCHANGED <<tcpvars, netvars, routes, caches, ticks, arp_rx, arp_rv, ip_id>>

SendtoOpen(t) ==
    /\ UdpCanCall(t)
    /\ SendtoQuiet(udp_open(UdpMachine, t), t)
    /\ budget' = budget - 1

SendtoBind(t) ==
    /\ UdpCanCall(t)
    /\ \E id \in CallIds, local \in SendtoLocals :
          SendtoQuiet(udp_bind(UdpMachine, t, id, local), t)
    /\ budget' = budget - 1

SendtoClose(t) ==
    /\ UdpCanCall(t)
    /\ \E id \in CallIds : SendtoQuiet(udp_close(UdpMachine, t, id, "ok"), t)
    /\ budget' = budget - 1

UdpSendto(t) ==
    /\ UdpCanCall(t)
    /\ \E id \in CallIds, foreign \in SendtoForeigns, drv \in DrvReturns :
          SendtoCommit(udp_sendto(UdpMachine, NetMachine, t, id, <<97>>, foreign, drv), t)
    /\ budget' = budget - 1

\* the dispatch thread runs arp_input, both parts, on the peer's reply
PeerReplies ==
    /\ budget > 0
    /\ arp_rx = NoMessage
    /\ LET msg == ArpMessage(ARP_OP_REPLY, PeerHa, Peer.addr, EtherDev.addr,
                             EtherIface.unicast)
           N == arp_input(NetMachine, msg, ARP_MSG_SIZE, EtherIface, 0)
       IN  /\ caches' = N.caches
           /\ ticks' = N.ticks
           /\ frames' = N.frames
           /\ ip_id' = N.id
    /\ urv' = NoReturn
    /\ budget' = budget - 1
    /\ UNCHANGED <<tcpvars, netvars, udp_pcbs, udp_mutex, uthr, routes, arp_rx, arp_rv>>

SendtoInit == \E R \in {OnLinkRoutes, GatewayRoutes} : StartWith(MaxSendtoSteps, R)

SendtoNext ==
    \/ \E t \in Threads : SendtoOpen(t)
    \/ \E t \in Threads : SendtoBind(t)
    \/ \E t \in Threads : SendtoClose(t)
    \/ \E t \in Threads : UdpSendto(t)
    \/ PeerReplies

SendtoSpec == SendtoInit /\ [][SendtoNext]_vars

(***************************************************************************)
(* Routes: the setup registers interfaces on devices and default gateways, *)
(* and ip_route_lookup is asked for destinations.  Addresses are written   *)
(* a.b, so 10.1/12 stands for a network inside 10/8.                       *)
(***************************************************************************)
MaxRouteSteps == 4

\* Ethernet devices; a device takes one IP interface (net_device_add_iface)
RouteDevs == {[EtherDev EXCEPT !.name = n] : n \in {"net1", "net2", "net3"}}

\* 10.1.2 and 10.2.3
RouteUnicasts == {2578, 2595}

\* 255.0, 255.240 and 240.240
RouteNetmasks == {65280, 65520, 61680}

RouteGateways == {2577}

\* 10.1.2, 10.2.3, 15.1.15 and 192.2.1
RouteDsts == {2578, 2595, 3871, 49185}

\* the devices that have their IP interface
WithIface(R) == {R[k].iface.dev : k \in {j \in 1 .. Len(R) : R[j].nexthop = IP_ADDR_ANY}}

RouteQuiet == UNCHANGED <<tcpvars, udpvars, caches, ticks, arp_rx, arp_rv, frames, ip_id,
                          net_protocols, ip_protocols, subscribers, ip_rx, net_rv,
                          lockvars, drvvars>>

\* the setup calls ip_iface_alloc and ip_iface_register
IfaceRegister ==
    /\ budget > 0
    /\ \E dev \in RouteDevs \ WithIface(routes), unicast \in RouteUnicasts,
          netmask \in RouteNetmasks :
          routes' = ip_iface_register(routes, ip_iface_alloc(dev, unicast, netmask))
    /\ route_rv' = NoLookup
    /\ budget' = budget - 1
    /\ RouteQuiet

\* the setup calls ip_route_set_default_gateway for a registered interface
SetDefaultGateway ==
    /\ budget > 0
    /\ \E k \in 1 .. Len(routes), gw \in RouteGateways :
          /\ routes[k].nexthop = IP_ADDR_ANY
          /\ routes' = ip_route_set_default_gateway(routes, routes[k].iface, gw)
    /\ route_rv' = NoLookup
    /\ budget' = budget - 1
    /\ RouteQuiet

\* ip_route_lookup(dst), as ip_output and ip_route_get_iface call it
RouteLookup ==
    /\ budget > 0
    /\ \E dst \in RouteDsts :
          route_rv' = [dst |-> dst, route |-> ip_route_lookup(dst), called |-> TRUE]
    /\ budget' = budget - 1
    /\ UNCHANGED routes
    /\ RouteQuiet

RouteInit == StartWith(MaxRouteSteps, <<>>)

RouteNext ==
    \/ IfaceRegister
    \/ SetDefaultGateway
    \/ RouteLookup

RouteSpec == RouteInit /\ [][RouteNext]_vars

(***************************************************************************)
(* ARP: application threads, inside ip_output, call arp_resolve for a next *)
(* hop on the Ethernet interface, and the dispatch thread runs arp_input   *)
(* on the messages that arrive there.  arp_input takes the mutex twice,    *)
(* for arp_cache_update and for arp_cache_insert, so an arp_resolve can    *)
(* run in between.                                                         *)
(***************************************************************************)
MaxArpSteps == 5

\* next hops: the peer and a second host on the network
Other == 515

ArpAddrs == {Peer.addr, Other}

\* hardware addresses the peer answers with
PeerHas == {PeerHa, 3}

\* messages that arrive: requests and replies of the peer, for this host and
\* for the other one, and a message of another hardware type
ArpInputs ==
    {ArpMessage(op, sha, Peer.addr, ETHER_ADDR_ANY, tpa) :
        op \in {ARP_OP_REQUEST, ARP_OP_REPLY}, sha \in PeerHas,
        tpa \in {EtherIface.unicast, Other}}
    \cup {[ArpMessage(ARP_OP_REQUEST, PeerHa, Peer.addr, ETHER_ADDR_ANY,
                      EtherIface.unicast) EXCEPT !.hrd = 6]}

\* the step ends for the ARP module
ArpCommit(N) ==
    /\ caches' = N.caches
    /\ ticks' = N.ticks
    /\ frames' = N.frames
    /\ ip_id' = N.id
    /\ UNCHANGED <<tcpvars, udpvars, netvars, routes>>

\* a thread calls arp_resolve(iface, pa, ha) for the Ethernet interface
ArpResolve ==
    /\ budget > 0
    /\ \E pa \in ArpAddrs :
          LET r == arp_resolve(NetMachine, EtherIface, pa, 0)
          IN  /\ ArpCommit(r.N)
              /\ arp_rv' = [pa |-> pa, ret |-> r.ret, ha |-> r.ha, called |-> TRUE]
    /\ budget' = budget - 1
    /\ UNCHANGED arp_rx

\* the dispatch thread enters arp_input and runs to the end of the first
\* locked part
ArpInputUpdate ==
    /\ budget > 0
    /\ arp_rx = NoMessage
    /\ \E msg \in ArpInputs :
          LET u == arp_input_update(NetMachine, msg, ARP_MSG_SIZE, EtherIface)
          IN  /\ ArpCommit(u.N)
              /\ arp_rx' = u.ret
    /\ arp_rv' = NoResolve
    /\ budget' = budget - 1

\* the dispatch thread runs arp_input to its end
ArpInputReply ==
    /\ arp_rx # NoMessage
    /\ ArpCommit(arp_input_reply(NetMachine, arp_rx, 0))
    /\ arp_rx' = NoMessage
    /\ arp_rv' = NoResolve
    /\ UNCHANGED budget

ArpInit == Start(MaxArpSteps)

ArpNext ==
    \/ ArpResolve
    \/ ArpInputUpdate
    \/ ArpInputReply

ArpSpec == ArpInit /\ [][ArpNext]_vars

(***************************************************************************)
(* The EVENT interrupt with both protocols in use: threads in TCP calls on *)
(* the echo connection, threads in UDP calls, and the interrupt thread,    *)
(* which for one EVENT runs the subscriber of UDP and the subscriber of    *)
(* TCP.  thr holds the threads that are in TCP calls and uthr those in UDP *)
(* calls.                                                                  *)
(***************************************************************************)
MaxIrqSteps == 5

\* what rv and urv show after the step of the interrupt thread
IrqDone == [NoReturn EXCEPT !.op = "irq"]

IrqInit == Start(MaxIrqSteps)

\* the SYN of the peer, and its acknowledgments of what has been sent
IrqInputs ==
    SynSegs \cup {Seg(pcbs[i].rcv.nxt, pcbs[i].snd.nxt, {TCP_FLG_ACK}, w, <<>>,
                      pcbs[i].foreign, pcbs[i].local) :
                     i \in SynDone, w \in SegWindows}

IrqOpen(t) == OpenCall(t, {FALSE})

IrqSend(t) == SendCall(t, {0}, {FALSE})

IrqReceive(t) ==
    /\ CanCall(t)
    /\ Commit(tcp_receive(Machine, t, 0, 2048), t)
    /\ budget' = budget - 1

IrqClose(t) ==
    /\ CanCall(t)
    /\ \E o \in Destroys : Commit(tcp_close(Machine, t, 0, o), t)
    /\ budget' = budget - 1

IrqSegment == Arrival(IrqInputs)

IrqUdpRecvfrom(t) ==
    /\ UdpCanCall(t)
    /\ UdpCommit(udp_recvfrom(UdpMachine, t, 0, 2048), t)
    /\ budget' = budget - 1

IrqUdpClose(t) ==
    /\ UdpCanCall(t)
    /\ \E o \in UdpDestroys : UdpCommit(udp_close(UdpMachine, t, 0, o), t)
    /\ budget' = budget - 1

\* net_event_handler: every subscriber runs, each under the mutex of its
\* protocol
EventIrq ==
    /\ Intact
    /\ tcp_mutex = NoThread
    /\ udp_mutex = NoThread
    /\ budget > 0
    /\ budget' = budget - 1
    /\ LET M == event_handler(Machine)
           U == udp_event_handler(UdpMachine)
       IN  /\ pcbs' = M.pcbs
           /\ thr' = M.thr
           /\ udp_pcbs' = U.pcbs
           /\ uthr' = U.thr
    /\ tx' = <<>>
    /\ rv' = IrqDone
    /\ urv' = IrqDone
    /\ UNCHANGED <<tcp_mutex, udp_mutex, rxlog, rdlog, overrun, ipvars, netvars>>

IrqNext ==
    \/ \E t \in Threads : IrqOpen(t)
    \/ \E t \in Threads : IrqSend(t)
    \/ \E t \in Threads : IrqReceive(t)
    \/ \E t \in Threads : IrqClose(t)
    \/ \E t \in Threads : Resume(t)
    \/ IrqSegment
    \/ \E t \in Threads : UdpOpen(t)
    \/ \E t \in Threads : IrqUdpRecvfrom(t)
    \/ \E t \in Threads : IrqUdpClose(t)
    \/ \E t \in Threads : UdpResume(t)
    \/ EventIrq

IrqSpec == IrqInit /\ [][IrqNext]_vars

\* a runnable thread gets the processor and the mutex
IrqFairSpec ==
    /\ IrqSpec
    /\ \A t \in Threads : WF_vars(Resume(t))
    /\ \A t \in Threads : WF_vars(UdpResume(t))

TypeOK ==
    /\ \A i \in PcbIds : pcbs[i].rcv.wnd \in 0 .. 65535
    /\ tcp_mutex \in Threads \cup {NoThread}

(***************************************************************************)
(* What the properties below speak about.                                  *)
(***************************************************************************)
\* thread t is blocked in call pc on slot i, whose memory is still the PCB
\* the call went to sleep on
Blocked(t, pc, i) == thr[t].pc = pc /\ thr[t].id = i /\ ~thr[t].orphan

\* the last step ended call op of thread t with value ret
Returned(t, op, ret) == rv.t = t /\ rv.op = op /\ rv.ret = ret

\* the EVENT interrupt has marked the context of slot i
Cancelled(i) == pcbs[i].ctx.interrupted # 0

\* slot i is being released, or has left ESTABLISHED
Closed(i) ==
    \/ pcbs[i].state # TCP_PCB_STATE_ESTABLISHED
    \/ \E u \in Threads : thr[u].pc = "destroy" /\ thr[u].id = i

(***************************************************************************)
(* C1: a passive tcp_open_rfc793 returns a socket id only in a step that   *)
(* leaves its PCB ESTABLISHED (so it sleeps on through LISTEN and          *)
(* SYN_RECEIVED), and a call blocked on a PCB that has become ESTABLISHED   *)
(* eventually returns the index of that PCB, unless the PCB is cancelled   *)
(* or closed first.                                                        *)
(***************************************************************************)
OpenEstablished(t) ==
    /\ Blocked(t, "open", thr[t].id)
    /\ pcbs[thr[t].id].state = TCP_PCB_STATE_ESTABLISHED

\* the call of thread t is still blocked and its PCB cancelled or closed, or
\* the program has left its defined behaviour
Disturbed(t) ==
    \/ Sleeping(thr, t) /\ (Cancelled(thr[t].id) \/ Closed(thr[t].id) \/ thr[t].orphan)
    \/ ~Intact

C1_OpenReturnsWhenEstablished ==
    /\ [](rv.op = "open" /\ rv.ret # ERROR
            => rv.ret = rv.id /\ pcbs[rv.ret].state = TCP_PCB_STATE_ESTABLISHED)
    /\ [][\A t \in Threads :
            thr[t].pc = "open" /\ rv'.t = t /\ rv'.ret # ERROR => rv'.ret = thr[t].id]_vars
    /\ \A t \in Threads :
          OpenEstablished(t)
              ~> ((rv.t = t /\ rv.op = "open" /\ rv.ret # ERROR) \/ Disturbed(t))

\* a passive open has come back with the index of its ESTABLISHED PCB
C1_Witness ==
    /\ rv.op = "open"
    /\ rv.ret = 0
    /\ pcbs[0].state = TCP_PCB_STATE_ESTABLISHED
    /\ pcbs[0].ctx.interrupted = 0

(***************************************************************************)
(* C2: a segment with SYN and neither RST nor ACK, sequence number s, from *)
(* foreign endpoint f, that is delivered to a LISTEN PCB makes the PCB     *)
(* record f, set irs = s, rcv.nxt = s + 1, rcv.wnd = 65535, hand exactly   *)
(* one SYN|ACK with seq = iss, ack = s + 1, wnd = 65535 for f to           *)
(* ip_output, set snd.una = iss, snd.nxt = iss + 1 and become              *)
(* SYN_RECEIVED.  Stated of tcp_input in every reachable state, for every  *)
(* such segment.                                                           *)
(***************************************************************************)
ListenSyns ==
    {Seg(s, Zero32, fl, 8192, d, f, Endpoint(a, 7)) :
        s \in {U32(0, 1000), U32(65535, 65535)},
        fl \in {{TCP_FLG_SYN}, {TCP_FLG_SYN, TCP_FLG_FIN}, {TCP_FLG_SYN, TCP_FLG_PSH}},
        d \in {<<>>, Bytes(97, 1)},
        f \in {Peer, Stranger},
        a \in HostAddrs}

ListenIss == {U32(0, 100), U32(32767, 65535)}

C2_ListenSyn ==
    \A h \in ListenSyns, iss \in ListenIss :
        LET i == tcp_pcb_select(pcbs, h.dst, h.src)
        IN  (i # NULL /\ pcbs[i].state = TCP_PCB_STATE_LISTEN) =>
                LET M2 == tcp_input(Machine, h, h.src.addr, h.dst.addr, iss)
                    pcb == M2.pcbs[i]
                IN  /\ pcb.foreign = h.src
                    /\ pcb.irs = h.seq
                    /\ pcb.rcv.nxt = Add32(h.seq, 1)
                    /\ pcb.rcv.wnd = 65535
                    /\ M2.tx = <<Seg(iss, Add32(h.seq, 1), {TCP_FLG_SYN, TCP_FLG_ACK},
                                     65535, <<>>, h.dst, h.src)>>
                    /\ pcb.snd.una = iss
                    /\ pcb.snd.nxt = Add32(iss, 1)
                    /\ pcb.state = TCP_PCB_STATE_SYN_RECEIVED
                    /\ \A j \in PcbIds \ {i} : M2.pcbs[j] = pcbs[j]

\* the SYN of the peer has arrived at a LISTEN PCB and the SYN|ACK is out
C2_Witness ==
    /\ pcbs[0].state = TCP_PCB_STATE_SYN_RECEIVED
    /\ pcbs[0].foreign = Peer
    /\ Len(tx) = 1
    /\ tx[1].flg = {TCP_FLG_SYN, TCP_FLG_ACK}
    /\ tx[1].ack = Add32(pcbs[0].irs, 1)

(***************************************************************************)
(* C3: in SYN_RECEIVED an acceptable segment carrying ACK makes the PCB    *)
(* ESTABLISHED and wakes the waiters exactly when snd.una < seg.ack <=     *)
(* snd.nxt; for every other seg.ack, seg.ack = snd.una included, the PCB   *)
(* stays SYN_RECEIVED and a RST with seq = seg.ack, ack = 0 goes out.      *)
(* Hence snd.una > iss in every ESTABLISHED PCB.  Stated of tcp_input in   *)
(* every reachable state, for every acknowledgment number around snd.una   *)
(* and snd.nxt.                                                            *)
(***************************************************************************)
C3_SynReceivedAck ==
    /\ \A i \in PcbIds :
          pcbs[i].state = TCP_PCB_STATE_SYN_RECEIVED =>
              \A h \in AckSegs(pcbs[i]) :
                  LET M2 == tcp_input(Machine, h, h.src.addr, h.dst.addr, Zero32)
                  IN  IF Lt32(pcbs[i].snd.una, h.ack) /\ Le32(h.ack, pcbs[i].snd.nxt)
                      THEN /\ M2.pcbs[i].state = TCP_PCB_STATE_ESTABLISHED
                           /\ Waiters(M2.thr, i) = {}
                      ELSE /\ M2.pcbs[i].state = TCP_PCB_STATE_SYN_RECEIVED
                           /\ M2.tx = <<Seg(h.ack, Zero32, {TCP_FLG_RST}, 0, <<>>,
                                            h.dst, h.src)>>
    /\ \A i \in PcbIds :
          pcbs[i].state = TCP_PCB_STATE_ESTABLISHED => Lt32(pcbs[i].iss, pcbs[i].snd.una)

\* the part of C3 that the code keeps: the PCB becomes ESTABLISHED, and the
\* waiters are woken, exactly when snd.una <= seg.ack <= snd.nxt, and
\* otherwise the RST goes out
SynReceivedAckClosedRange ==
    \A i \in PcbIds :
        pcbs[i].state = TCP_PCB_STATE_SYN_RECEIVED =>
            \A h \in AckSegs(pcbs[i]) :
                LET M2 == tcp_input(Machine, h, h.src.addr, h.dst.addr, Zero32)
                IN  IF Le32(pcbs[i].snd.una, h.ack) /\ Le32(h.ack, pcbs[i].snd.nxt)
                    THEN /\ M2.pcbs[i].state = TCP_PCB_STATE_ESTABLISHED
                         /\ Waiters(M2.thr, i) = {}
                    ELSE /\ M2.pcbs[i].state = TCP_PCB_STATE_SYN_RECEIVED
                         /\ M2.tx = <<Seg(h.ack, Zero32, {TCP_FLG_RST}, 0, <<>>,
                                          h.dst, h.src)>>

(***************************************************************************)
(* C8: in every PCB that has completed SYN processing no memcpy has        *)
(* written past the receive buffer, and bufsize - rcv.wnd is the number of *)
(* bytes received and not yet read (rcv.wnd never wraps).                  *)
(***************************************************************************)
C8_ReceiveWindowExact ==
    \A i \in SynDone :
        /\ overrun[i] = "none"
        /\ TCP_BUF_SIZE - pcbs[i].rcv.wnd = BLen(rxlog[i]) - BLen(rdlog[i])

(***************************************************************************)
(* The receive buffer as tcp_receive sees it.                              *)
(***************************************************************************)
\* the number of buffered bytes, and the bytes
Remain(pcb) == TCP_BUF_SIZE - pcb.rcv.wnd

Buffered(pcb) == BTake(pcb.buf, Remain(pcb))

\* the acknowledgment numbers around snd.una and snd.nxt of slot i; sent:
\* only those that acknowledge nothing beyond snd.nxt
TextAcks(i, sent) ==
    {a \in AckChoices(pcbs[i]) : sent => Le32(a, pcbs[i].snd.nxt)}

\* in-order text for slot i, no SYN or FIN, no longer than the receive window
InOrderText(i, sent) ==
    {h \in {Seg(pcbs[i].rcv.nxt, a, fl, w, d, pcbs[i].foreign, pcbs[i].local) :
               a \in TextAcks(i, sent), fl \in {{TCP_FLG_ACK}, {TCP_FLG_ACK, TCP_FLG_PSH}},
               w \in SegWindows, d \in SegPayloads} :
        BLen(h.data) > 0 /\ BLen(h.data) <= pcbs[i].rcv.wnd}

\* a thread is blocked in tcp_receive on ESTABLISHED slot i, whose buffer is
\* empty
ReceiveBlockedEmpty(i) ==
    /\ pcbs[i].state = TCP_PCB_STATE_ESTABLISHED
    /\ Remain(pcbs[i]) = 0
    /\ \E t \in Threads : Blocked(t, "receive", i)

\* tcp_input of every such segment buffers the text at the head, wakes the
\* waiters and sends one ACK with ack = seq + n, wnd = old rcv.wnd - n
TextAcked(sent) ==
    \A i \in PcbIds :
        ReceiveBlockedEmpty(i) =>
            \A h \in InOrderText(i, sent) :
                LET M2 == tcp_input(Machine, h, h.src.addr, h.dst.addr, Zero32)
                    n == BLen(h.data)
                IN  /\ Len(M2.tx) = 1
                    /\ M2.tx[1].flg = {TCP_FLG_ACK}
                    /\ M2.tx[1].ack = Add32(h.seq, n)
                    /\ M2.tx[1].wnd = pcbs[i].rcv.wnd - n
                    /\ M2.tx[1].dst = pcbs[i].foreign
                    /\ Buffered(M2.pcbs[i]) = h.data
                    /\ Waiters(M2.thr, i) = {}

\* thread t is blocked in tcp_receive on an ESTABLISHED PCB that holds bytes
ReceiveReady(t) ==
    /\ Blocked(t, "receive", thr[t].id)
    /\ pcbs[thr[t].id].state = TCP_PCB_STATE_ESTABLISHED
    /\ Remain(pcbs[thr[t].id]) > 0

\* a blocked tcp_receive whose PCB holds bytes has been released from its
\* wait, and when it runs on it returns the head of the buffer
ReceiveResumes ==
    \A t \in Threads :
        ReceiveReady(t) /\ ~Cancelled(thr[t].id) =>
            LET pcb == pcbs[thr[t].id]
                n == MIN(thr[t].size, Remain(pcb))
                M2 == Wakeup(Machine, t, FALSE, "ok")
            IN  /\ thr[t].woken
                /\ M2.rv = [t |-> t, op |-> "receive", id |-> thr[t].id, ret |-> n,
                            errno |-> 0, out |-> BTake(Buffered(pcb), n)]

\* thread t has come back from tcp_receive with bytes
ReceiveDone(t) == rv.t = t /\ rv.op = "receive" /\ rv.ret > 0

\* the bytes thread t was woken for are gone
Emptied(t) == Sleeping(thr, t) /\ Remain(pcbs[thr[t].id]) = 0

SendReady(t) ==
    /\ Blocked(t, "send", thr[t].id)
    /\ pcbs[thr[t].id].state = TCP_PCB_STATE_ESTABLISHED
    /\ SendCap(pcbs[thr[t].id]) # Zero32

\* the window of the PCB thread t sleeps on is used up again
Exhausted(t) == Sleeping(thr, t) /\ SendCap(pcbs[thr[t].id]) = Zero32

C6_SendResumes ==
    \A t \in Threads :
        SendReady(t)
            ~> ((rv.t = t /\ rv.op = "send" /\ rv.ret # ERROR) \/ Disturbed(t) \/ Exhausted(t))

(***************************************************************************)
(* C7: every data segment of tcp_send carries between 1 and MSS bytes and  *)
(* leaves snd.nxt - snd.una <= snd.wnd, also after the peer has advertised *)
(* a window smaller than what is in flight.  Stated of the PCBs whose SYN  *)
(* the peer has acknowledged.                                              *)
(***************************************************************************)
Mss == DevMtu - (IP_HDR_SIZE_MIN + TCP_HDR_SIZE)

\* the last step sent text on slot i
SentText(i) ==
    /\ pcbs[i].state = TCP_PCB_STATE_ESTABLISHED
    /\ \E k \in 1 .. Len(tx) :
          tx[k].flg = {TCP_FLG_ACK, TCP_FLG_PSH} /\ tx[k].dst = pcbs[i].foreign

C7_SendWithinWindow ==
    \A i \in PcbIds :
        SentText(i) /\ Lt32(pcbs[i].iss, pcbs[i].snd.una) =>
            /\ \A k \in 1 .. Len(tx) : BLen(tx[k].data) \in 1 .. Mss
            /\ Le32(Sub32(pcbs[i].snd.nxt, pcbs[i].snd.una), U32(0, pcbs[i].snd.wnd))

(***************************************************************************)
(* C9: tcp_receive on an ESTABLISHED PCB holding b > 0 bytes returns       *)
(* n = min(size, b), the first n buffered bytes, leaves the other b - n in *)
(* order and grows rcv.wnd by n; so what successive calls have returned is *)
(* a prefix of the text buffered so far, in arrival order.                 *)
(***************************************************************************)
\* the first half of C9, stated of tcp_receive in every reachable state
ReceiveTakesHead ==
    \A i \in CallIds, size \in RecvSizes :
        pcbs[i].state = TCP_PCB_STATE_ESTABLISHED /\ Remain(pcbs[i]) > 0 =>
            LET M2 == tcp_receive(Machine, "t1", i, size)
                b == Remain(pcbs[i])
                n == MIN(size, b)
            IN  /\ M2.rv.ret = n
                /\ M2.rv.out = BTake(Buffered(pcbs[i]), n)
                /\ Buffered(M2.pcbs[i]) = BDrop(Buffered(pcbs[i]), n)
                /\ M2.pcbs[i].rcv.wnd = pcbs[i].rcv.wnd + n

C9_ReceivePrefix ==
    /\ ReceiveTakesHead
    /\ \A i \in PcbIds : BPrefix(rdlog[i], rxlog[i])

(***************************************************************************)
(* C10: tcp_close on a non-FREE PCB releases it: when it has returned 0    *)
(* the PCB is FREE, and every thread that was blocked on the PCB in        *)
(* tcp_receive, tcp_send or tcp_open_rfc793 eventually returns with an     *)
(* error.                                                                  *)
(***************************************************************************)
\* tcp_close of the PCB the blocked thread t went to sleep on has returned 0
ClosedUnder(t) ==
    /\ Sleeping(thr, t)
    /\ rv.op = "close" /\ rv.ret = 0 /\ rv.id = thr[t].id

\* the step in which tcp_close of thread t passes the get of the PCB hands
\* one RST to ip_output
CloseSendsRst(t) ==
    /\ thr[t].pc = "idle"
    /\ \/ rv'.t = t /\ rv'.op = "close" /\ rv'.ret = 0
       \/ thr'[t].pc = "destroy" /\ thr'[t].op = "close"
    => Len(tx') = 1 /\ tx'[1].flg = {TCP_FLG_RST}

C10_CloseReleases ==
    /\ [][\A t \in Threads : CloseSendsRst(t)]_vars
    /\ \A i \in CallIds :
          (rv.op = "close" /\ rv.ret = 0 /\ rv.id = i) ~> (pcbs[i].state = TCP_PCB_STATE_FREE)
    /\ \A t \in Threads : ClosedUnder(t) ~> (rv.t = t /\ rv.ret = ERROR)

(***************************************************************************)
(* C5: a thread blocked in udp_recvfrom on an OPEN PCB with an empty queue *)
(* is woken by a datagram that udp_input queues on the PCB and eventually  *)
(* returns it; with fair scheduling, no cancellation and no close.         *)
(***************************************************************************)
\* thread t is blocked in udp_recvfrom on an OPEN PCB that holds a datagram
RecvfromReady(t) ==
    /\ uthr[t].pc = "receive" /\ ~uthr[t].orphan
    /\ udp_pcbs[uthr[t].id].state = UDP_PCB_STATE_OPEN
    /\ udp_pcbs[uthr[t].id].queue # <<>>

\* the PCB thread t is blocked on is cancelled, closed, or empty again
RecvfromExcused(t) ==
    /\ Sleeping(uthr, t)
    /\ \/ udp_pcbs[uthr[t].id].ctx.interrupted # 0
       \/ udp_pcbs[uthr[t].id].state # UDP_PCB_STATE_OPEN
       \/ uthr[t].orphan
       \/ udp_pcbs[uthr[t].id].queue = <<>>

\* udp_input of a datagram for a PCB with an empty queue that a thread is
\* blocked on queues the datagram and wakes the waiters
DatagramWakes ==
    \A a \in HostAddrs, p \in UdpPorts, data \in UdpPayloads :
        LET i == udp_pcb_select(udp_pcbs, a, p)
            M2 == udp_input(UdpMachine, Peer, Endpoint(a, p), data)
        IN  (/\ i # NULL
             /\ udp_pcbs[i].queue = <<>>
             /\ udp_pcbs[i].ctx.interrupted = 0
             /\ \E t \in Threads : uthr[t].pc = "receive" /\ uthr[t].id = i /\ ~uthr[t].orphan)
            => /\ M2.pcbs[i].queue = <<[foreign |-> Peer, data |-> data]>>
               /\ Waiters(M2.thr, i) = {}

C5_RecvfromWoken ==
    /\ []DatagramWakes
    /\ \A t \in Threads :
          RecvfromReady(t)
              ~> ((urv.t = t /\ urv.op = "recvfrom" /\ urv.ret # ERROR) \/ RecvfromExcused(t))

(***************************************************************************)
(* C11: udp_close on an OPEN PCB takes it through CLOSING to FREE, with    *)
(* local endpoint (0.0.0.0, 0) and an empty queue; every thread blocked in *)
(* udp_recvfrom on the PCB is woken, sees CLOSING and eventually returns   *)
(* an error, and the PCB eventually is FREE.                               *)
(***************************************************************************)
\* udp_close of the PCB the blocked thread t went to sleep on has begun
UdpClosedUnder(t) ==
    /\ Sleeping(uthr, t)
    /\ \/ urv.op = "close" /\ urv.ret = 0 /\ urv.id = uthr[t].id
       \/ \E u \in Threads : uthr[u].pc = "destroy" /\ uthr[u].id = uthr[t].id

C11_UdpCloseReleases ==
    /\ [](urv.op = "close" /\ urv.ret = 0
            => udp_pcbs[urv.id] = [ZeroUdpPcb EXCEPT !.ctx = udp_pcbs[urv.id].ctx])
    /\ \A i \in CallIds :
          (udp_pcbs[i].state = UDP_PCB_STATE_CLOSING) ~> (udp_pcbs[i].state = UDP_PCB_STATE_FREE)
    /\ \A t \in Threads :
          UdpClosedUnder(t) ~> (urv.t = t /\ urv.op = "recvfrom" /\ urv.ret = ERROR)

(***************************************************************************)
(* The EVENT interrupt as the blocked calls see it.                        *)
(***************************************************************************)
\* run in any state with both mutexes free, the subscribers leave the
\* context of every PCB that is not FREE interrupted and nobody waiting on it
IrqInterruptsAll ==
    (tcp_mutex = NoThread /\ udp_mutex = NoThread) =>
        LET M == event_handler(Machine)
            U == udp_event_handler(UdpMachine)
        IN  /\ \A i \in PcbIds :
                  IF pcbs[i].state # TCP_PCB_STATE_FREE
                  THEN M.pcbs[i].ctx.interrupted = 1 /\ Waiters(M.thr, i) = {}
                  ELSE M.pcbs[i] = pcbs[i]
            /\ \A i \in UdpPcbIds :
                  IF udp_pcbs[i].state # UDP_PCB_STATE_FREE
                  THEN U.pcbs[i].ctx.interrupted = 1 /\ Waiters(U.thr, i) = {}
                  ELSE U.pcbs[i] = udp_pcbs[i]

\* the interrupt thread has just run while thread t was blocked in a TCP
\* call, tcp_send with nothing sent yet
IrqHitTcp(t) ==
    /\ rv = IrqDone
    /\ Sleeping(thr, t)
    /\ thr[t].pc = "send" => thr[t].sent = 0

\* the same of a thread blocked in udp_recvfrom
IrqHitUdp(t) == urv = IrqDone /\ Sleeping(uthr, t)

\* the call of thread t has just returned the interrupted error
IrqFailedTcp(t) == rv.t = t /\ rv.ret = ERROR /\ rv.errno = EINTR

IrqFailedUdp(t) == urv.t = t /\ urv.ret = ERROR /\ urv.errno = EINTR

\* the PCB thread t is blocked on has been released: before the interrupt,
\* which leaves the thread on what is no longer a condition variable, or
\* after it, which clears the mark of the interrupt
IrqReleasedTcp(t) ==
    /\ Sleeping(thr, t)
    /\ thr[t].orphan \/ pcbs[thr[t].id].ctx.interrupted = 0

IrqReleasedUdp(t) ==
    /\ Sleeping(uthr, t)
    /\ uthr[t].orphan \/ udp_pcbs[uthr[t].id].state # UDP_PCB_STATE_OPEN

SendCancelled(t) ==
    /\ Blocked(t, "send", thr[t].id)
    /\ Cancelled(thr[t].id)

\* what the interrupted sched_sleep makes of the call, in every such state
SendCancelReturns ==
    \A t \in Threads :
        SendCancelled(t) =>
            LET i == thr[t].id
                M2 == Wakeup(Machine, t, FALSE, "ok")
            IN  /\ M2.rv.t = t /\ M2.rv.op = "send"
                /\ IF thr[t].sent > 0
                   THEN M2.rv.ret = thr[t].sent
                   ELSE M2.rv.ret = ERROR /\ M2.rv.errno = EINTR
                /\ M2.tx = <<>>
                /\ M2.pcbs[i] = [pcbs[i] EXCEPT !.ctx = M2.pcbs[i].ctx]
                /\ pcbs[i].state = TCP_PCB_STATE_ESTABLISHED
                      => M2.pcbs[i].state = TCP_PCB_STATE_ESTABLISHED

\* thread t takes a step inside tcp_send that ends asleep or with a count
SendStep(t) ==
    /\ \/ thr[t].pc = "idle"
       \/ thr[t].pc = "send" /\ thr[t].woken
    /\ \/ thr'[t].pc = "send" /\ ~thr'[t].woken
       \/ thr[t].pc = "send" /\ rv'.t = t /\ rv'.ret >= 0
       \/ rv'.t = t /\ rv'.op = "send" /\ rv'.ret >= 0

\* the bytes handed to tcp_output before and after the step
SentBefore(t) == IF thr[t].pc = "send" THEN thr[t].sent ELSE 0

SentAfter(t) == IF thr'[t].pc = "send" THEN thr'[t].sent ELSE rv'.ret

SendAdvances ==
    \A t \in Threads :
        SendStep(t) =>
            LET i == IF thr'[t].pc = "send" THEN thr'[t].id ELSE rv'.id
            IN  Sub32(pcbs'[i].snd.nxt, pcbs[i].snd.nxt)
                    = U32(0, SentAfter(t) - SentBefore(t))

C13_SendCancelled ==
    /\ []SendCancelReturns
    /\ [][SendAdvances]_vars

\* a tcp_send that sleeps with two bytes sent has been interrupted and woken
C13_Witness ==
    \E t \in Threads :
        /\ SendCancelled(t)
        /\ thr[t].woken
        /\ thr[t].sent = 2
        /\ pcbs[thr[t].id].state = TCP_PCB_STATE_ESTABLISHED

(***************************************************************************)
(* C14: tcp_send and tcp_receive on an id that is out of range, FREE or in *)
(* a state other than ESTABLISHED, at the call and at every return from    *)
(* sched_sleep, return an error, emit no segment and leave every field of  *)
(* every PCB as it was.                                                    *)
(***************************************************************************)
\* the call leaves thread t returned with an error and nothing else done
RefusedBy(M2, t, op) ==
    /\ M2.rv.t = t /\ M2.rv.op = op /\ M2.rv.ret = ERROR
    /\ M2.thr[t].pc = "idle"
    /\ M2.tx = <<>>
    /\ M2.pcbs = pcbs

\* the ids tcp_pcb_get refuses, and the ids of PCBs in another state
NotEstablished ==
    {-1, TCP_PCB_SIZE}
        \cup {i \in PcbIds : pcbs[i].state # TCP_PCB_STATE_ESTABLISHED}

RefusedOnEntry ==
    \A t \in Threads : \A id \in NotEstablished :
        /\ \A d \in SendPayloads :
              RefusedBy(tcp_send(Machine, t, id, d, FALSE, "ok"), t, "send")
        /\ \A n \in RecvSizes :
              RefusedBy(tcp_receive(Machine, t, id, n), t, "receive")

\* thread t was woken in tcp_send or tcp_receive and finds another state
WokenElsewhere(t) ==
    /\ thr[t].pc \in {"send", "receive"}
    /\ thr[t].woken
    /\ pcbs[thr[t].id].state # TCP_PCB_STATE_ESTABLISHED

RefusedAfterWakeup ==
    \A t \in Threads :
        WokenElsewhere(t) =>
            RefusedBy(Wakeup(Machine, t, FALSE, "ok"), t, thr[t].pc)

C14_NotEstablishedRefused == RefusedOnEntry /\ RefusedAfterWakeup

(***************************************************************************)
(* C15: whatever udp_open, udp_bind, udp_sendto and udp_close have done,   *)
(* no destination (address, port) with a non-zero port is matched by two   *)
(* OPEN UDP PCBs (a PCB matches when its local address is 0.0.0.0 or the   *)
(* destination's and its local port is the destination's), and udp_bind    *)
(* returns an error and leaves the PCB as it was whenever the binding      *)
(* would make a second match.                                              *)
(***************************************************************************)
\* the OPEN PCBs of table P that match destination (a, p)
UdpMatching(P, a, p) ==
    {i \in UdpPcbIds : /\ P[i].state = UDP_PCB_STATE_OPEN
                       /\ (P[i].local.addr = IP_ADDR_ANY \/ P[i].local.addr = a)
                       /\ P[i].local.port = p}

\* the addresses datagrams for this host are sent to
DestAddrs == {EtherIface.unicast, LoopbackIface.unicast}

\* the non-zero ports some PCB of P has
PortsOf(P) == {P[i].local.port : i \in UdpPcbIds} \ {0}

OneMatch(P) ==
    \A a \in DestAddrs, p \in PortsOf(P) : Cardinality(UdpMatching(P, a, p)) <= 1

BindRefusesSecond ==
    \A t \in Threads, id \in CallIds, local \in SendtoLocals :
        LET M2 == udp_bind(UdpMachine, t, id, local)
            bound == [udp_pcbs EXCEPT ![id].local = local]
        IN  (udp_pcbs[id].state = UDP_PCB_STATE_OPEN /\ ~OneMatch(bound))
                => M2.rv.ret = ERROR /\ M2.pcbs = udp_pcbs

C15_UdpOneMatch == OneMatch(udp_pcbs) /\ BindRefusesSecond

(***************************************************************************)
(* C16: the datagrams udp_input accepts for a PCB are handed out by the    *)
(* udp_recvfrom calls on it in the order they came, each once: udp_input   *)
(* puts the datagram, with its source address and port, at the end of the  *)
(* queue of the one PCB it selects; a udp_recvfrom that returns data takes *)
(* the head of the queue, reports its source, copies min(size, length)     *)
(* bytes and drops the entry whole; and nothing else touches a queue but   *)
(* the release of its PCB.                                                 *)
(***************************************************************************)
\* the datagram at the head of the queue of PCB i, handed to a buffer of
\* size bytes
HeadTaken(i, size) ==
    [foreign |-> Head(udp_pcbs[i].queue).foreign,
     data |-> SubSeq(Head(udp_pcbs[i].queue).data, 1,
                     MIN(size, Len(Head(udp_pcbs[i].queue).data)))]

\* M2 is the return of the head of PCB i to thread t
TakesHead(M2, t, i, size) ==
    /\ M2.rv.t = t /\ M2.rv.op = "recvfrom"
    /\ M2.rv.ret = MIN(size, Len(Head(udp_pcbs[i].queue).data))
    /\ M2.rv.out = HeadTaken(i, size)
    /\ M2.pcbs = [udp_pcbs EXCEPT ![i].queue = Tail(@), ![i].ctx = M2.pcbs[i].ctx]

\* udp_input appends to the PCB it selects and to no other
InputAppends ==
    \A a \in HostAddrs, p \in UdpPorts, data \in UdpPayloads, src \in {Peer, Stranger} :
        LET M2 == udp_input(UdpMachine, src, Endpoint(a, p), data)
            i == udp_pcb_select(udp_pcbs, a, p)
        IN  IF i = NULL THEN M2.pcbs = udp_pcbs
            ELSE M2.pcbs = [udp_pcbs EXCEPT
                               ![i].queue = Append(@, [foreign |-> src, data |-> data])]

\* a call on an OPEN PCB with something queued
RecvfromTakesHead ==
    \A t \in Threads, i \in CallIds, size \in RecvSizes :
        (udp_pcbs[i].state = UDP_PCB_STATE_OPEN /\ udp_pcbs[i].queue # <<>>)
            => TakesHead(udp_recvfrom(UdpMachine, t, i, size), t, i, size)

\* a sleeper that is woken, not interrupted, on an OPEN PCB with something
\* queued
WokenTakesHead ==
    \A t \in Threads :
        LET i == uthr[t].id
        IN  (/\ uthr[t].pc = "receive" /\ uthr[t].woken /\ ~uthr[t].orphan
             /\ udp_pcbs[i].state = UDP_PCB_STATE_OPEN
             /\ udp_pcbs[i].ctx.interrupted = 0
             /\ udp_pcbs[i].queue # <<>>)
                => TakesHead(UdpWakeup(UdpMachine, t, "ok"), t, i, uthr[t].size)

\* a step changes a queue only by one push, one pop or the release
QueueSteps ==
    \A i \in UdpPcbIds :
        \/ udp_pcbs'[i].queue = udp_pcbs[i].queue
        \/ /\ udp_pcbs'[i].queue # <<>>
           /\ udp_pcbs[i].queue = SubSeq(udp_pcbs'[i].queue, 1, Len(udp_pcbs'[i].queue) - 1)
           /\ urv' = NoReturn
        \/ /\ udp_pcbs[i].queue # <<>>
           /\ udp_pcbs'[i].queue = Tail(udp_pcbs[i].queue)
           /\ urv'.op = "recvfrom" /\ urv'.id = i /\ urv'.ret >= 0
           /\ urv'.out.foreign = Head(udp_pcbs[i].queue).foreign
        \/ /\ udp_pcbs'[i].queue = <<>>
           /\ udp_pcbs'[i].state = UDP_PCB_STATE_FREE

C16_RecvfromInOrder ==
    /\ []InputAppends
    /\ []RecvfromTakesHead
    /\ []WokenTakesHead
    /\ [][QueueSteps]_vars

\* udp_recvfrom has returned the first byte of the first of two datagrams,
\* and the second datagram is now the head of the queue
C16_Witness ==
    /\ urv.op = "recvfrom"
    /\ urv.ret = 1
    /\ urv.out = [foreign |-> Peer, data |-> <<97>>]
    /\ udp_pcbs[urv.id].state = UDP_PCB_STATE_OPEN
    /\ Len(udp_pcbs[urv.id].queue) = 1

(***************************************************************************)
(* C17: udp_sendto on a PCB with local port 0 gives the PCB the lowest     *)
(* port of 49152..65535 that no OPEN PCB matches at the source address     *)
(* chosen for the datagram, and a PCB that has a port keeps it; a PCB with *)
(* local address 0.0.0.0 sends from the unicast address of the interface   *)
(* of the route to the destination, and the call fails, sending nothing    *)
(* and changing nothing, when there is no such route.                      *)
(***************************************************************************)
\* the source address udp_sendto is to choose for PCB i and destination f
ChosenAddr(i, f) ==
    IF udp_pcbs[i].local.addr = IP_ADDR_ANY
    THEN ip_route_lookup(f.addr).iface.unicast
    ELSE udp_pcbs[i].local.addr

\* port q, of the host's byte order, is free at address a
PortFree(a, q) == UdpMatching(udp_pcbs, a, hton16(q)) = {}

\* the lowest free port at address a
LowestFree(a) ==
    CHOOSE q \in UDP_SOURCE_PORT_MIN .. UDP_SOURCE_PORT_MAX :
        /\ PortFree(a, q)
        /\ \A r \in UDP_SOURCE_PORT_MIN .. (q - 1) : ~PortFree(a, r)

\* the IP datagrams among the frames
IpFrames(F) == {k \in 1 .. Len(F) : F[k].type = NET_PROTOCOL_TYPE_IP}

SendtoAssigns ==
    \A t \in Threads, i \in CallIds, f \in SendtoForeigns, drv \in DrvReturns :
        LET R == udp_sendto(UdpMachine, NetMachine, t, i, <<97>>, f, drv)
            routed == ip_route_lookup(f.addr) # NULL_ROUTE
            port == IF udp_pcbs[i].local.port = 0
                    THEN hton16(LowestFree(ChosenAddr(i, f)))
                    ELSE udp_pcbs[i].local.port
        IN  udp_pcbs[i].state = UDP_PCB_STATE_OPEN =>
                IF udp_pcbs[i].local.addr = IP_ADDR_ANY /\ ~routed
                THEN /\ R.M.rv.ret = ERROR
                     /\ R.M.pcbs = udp_pcbs
                     /\ R.N = NetMachine
                ELSE /\ R.M.pcbs = [udp_pcbs EXCEPT ![i].local.port = port]
                     /\ R.M.rv.out.local = Endpoint(ChosenAddr(i, f), port)
                     /\ \A k \in IpFrames(R.N.frames) :
                           /\ R.N.frames[k].data.src = ChosenAddr(i, f)
                           /\ R.N.frames[k].data.dst = f.addr
                           /\ R.N.frames[k].data.data.src = port

C17_SendtoSourcePort == SendtoAssigns

\* a second socket has sent over loopback from the second port of the
\* range, the first being taken, with the interface's address as source
C17_Witness ==
    /\ urv.op = "sendto"
    /\ urv.ret = 1
    /\ urv.out.local = Endpoint(LoopbackIface.unicast, hton16(UDP_SOURCE_PORT_MIN + 1))
    /\ udp_pcbs[urv.id].local = Endpoint(IP_ADDR_ANY, hton16(UDP_SOURCE_PORT_MIN + 1))
    /\ Len(frames) = 1
    /\ frames[1].data.src = LoopbackIface.unicast

(***************************************************************************)
(* C18: for a protocol address pa on the Ethernet interface, an            *)
(* arp_resolve that finds no entry makes exactly one INCOMPLETE entry,     *)
(* sends one broadcast REQUEST and returns INCOMPLETE; an arp_resolve that *)
(* finds the entry INCOMPLETE sends the REQUEST again, changes no entry    *)
(* and returns INCOMPLETE; once arp_input has returned from a message with *)
(* sender pa and hardware address h, the entry of pa is RESOLVED with h    *)
(* and arp_resolve returns FOUND with h; and arp_resolve returns FOUND     *)
(* only with the hardware address of a RESOLVED entry of pa.               *)
(***************************************************************************)
\* the entries of table C for pa
EntriesOf(C, pa) == {c \in CacheIds : C[c].state # ARP_CACHE_STATE_FREE /\ C[c].pa = pa}

\* F is one broadcast REQUEST for pa from the Ethernet interface
OneRequest(F, pa) ==
    /\ Len(F) = 1
    /\ F[1].type = NET_PROTOCOL_TYPE_ARP
    /\ F[1].dst = ETHER_ADDR_BROADCAST
    /\ F[1].data = ArpMessage(ARP_OP_REQUEST, EtherDev.addr, EtherIface.unicast,
                              ETHER_ADDR_ANY, pa)

FirstResolve ==
    \A pa \in ArpAddrs :
        LET r == arp_resolve(NetMachine, EtherIface, pa, 0)
            changed == {c \in CacheIds : r.N.caches[c] # caches[c]}
        IN  EntriesOf(caches, pa) = {} =>
                /\ r.ret = ARP_RESOLVE_INCOMPLETE
                /\ Cardinality(changed) = 1
                /\ EntriesOf(r.N.caches, pa) = changed
                /\ \A c \in changed : r.N.caches[c].state = ARP_CACHE_STATE_INCOMPLETE
                /\ OneRequest(r.N.frames, pa)

FurtherResolve ==
    \A pa \in ArpAddrs :
        LET r == arp_resolve(NetMachine, EtherIface, pa, 0)
            c == arp_cache_select(caches, pa)
        IN  (c # NULL /\ caches[c].state = ARP_CACHE_STATE_INCOMPLETE) =>
                /\ r.ret = ARP_RESOLVE_INCOMPLETE
                /\ r.N.caches = caches
                /\ OneRequest(r.N.frames, pa)

FoundOnlyResolved ==
    \A pa \in ArpAddrs :
        LET r == arp_resolve(NetMachine, EtherIface, pa, 0)
        IN  r.ret = ARP_RESOLVE_FOUND =>
                \E c \in EntriesOf(caches, pa) :
                    /\ caches[c].state = ARP_CACHE_STATE_RESOLVED
                    /\ caches[c].ha = r.ha

\* arp_input found an entry of the sender, or is to insert one
Learns(rx) == rx.marge = 1 \/ rx.tpa = rx.iface.unicast

\* the step in which arp_input returns from a message of pa with h that it
\* learns from: the entry arp_cache_select finds for pa is then RESOLVED
\* with h, and so arp_resolve answers
InputResolves ==
    (arp_rx # NoMessage /\ arp_rx' = NoMessage) =>
        LET r == arp_resolve([caches |-> caches', ticks |-> ticks', frames |-> <<>>, id |-> ip_id'],
                             EtherIface, arp_rx.spa, 0)
            c == arp_cache_select(caches', arp_rx.spa)
        IN  Learns(arp_rx) =>
                /\ c # NULL
                /\ caches'[c].state = ARP_CACHE_STATE_RESOLVED
                /\ caches'[c].ha = arp_rx.sha
                /\ r.ret = ARP_RESOLVE_FOUND
                /\ r.ha = arp_rx.sha

C18_ArpResolves ==
    /\ []FirstResolve
    /\ []FurtherResolve
    /\ []FoundOnlyResolved
    /\ [][InputResolves]_vars

(***************************************************************************)
(* C19: arp_input of a valid Ethernet/IPv4 message hands a REPLY to the    *)
(* device if and only if the opcode is REQUEST and the target protocol     *)
(* address is the unicast address of the receiving interface; the reply    *)
(* has sha = the device's hardware address, spa = the interface's unicast, *)
(* tha = the requester's sha, tpa = the requester's spa, and goes to the   *)
(* requester's hardware address.  The sender gets a new RESOLVED entry if  *)
(* and only if arp_cache_update found none and the target matched; a       *)
(* message of an unknown sender for another target leaves the cache as it  *)
(* is, and so does a message that is not Ethernet/IPv4.  This is stated    *)
(* for the whole of arp_input in every reachable state, and for its two    *)
(* parts as steps, whatever runs in between.                               *)
(***************************************************************************)
ValidArp(msg) ==
    /\ msg.hrd = ARP_HRD_ETHER /\ msg.hln = ETHER_ADDR_LEN
    /\ msg.pro = ARP_PRO_IP /\ msg.pln = IP_ADDR_LEN

\* the frame of the reply to a requester
ReplyFrame(iface, sha, spa) ==
    [dev |-> iface.dev.name, type |-> NET_PROTOCOL_TYPE_ARP, dst |-> sha,
     data |-> [hrd |-> ARP_HRD_ETHER, pro |-> ARP_PRO_IP, hln |-> ETHER_ADDR_LEN,
               pln |-> IP_ADDR_LEN, op |-> ARP_OP_REPLY, sha |-> iface.dev.addr,
               spa |-> iface.unicast, tha |-> sha, tpa |-> spa]]

UsedEntries(C) == {c \in CacheIds : C[c].state # ARP_CACHE_STATE_FREE}

\* C2 is C with one more entry, RESOLVED, of pa and ha
InsertedInto(C, C2, pa, ha) ==
    \E c \in UsedEntries(C2) \ UsedEntries(C) :
        /\ C2[c].state = ARP_CACHE_STATE_RESOLVED
        /\ C2[c].pa = pa
        /\ C2[c].ha = ha
        /\ \A d \in CacheIds \ {c} : C2[d] = C[d]

\* what arp_input leaves after sha, spa, op and tpa, given whether the
\* sender was unknown when arp_cache_update looked
InputOutcome(C, C2, F, iface, op, sha, spa, tpa, unknown) ==
    LET targeted == tpa = iface.unicast
    IN  /\ F = IF op = ARP_OP_REQUEST /\ targeted
                THEN <<ReplyFrame(iface, sha, spa)>> ELSE <<>>
        /\ (unknown /\ targeted) => InsertedInto(C, C2, spa, sha)
        /\ ~(unknown /\ targeted) => UsedEntries(C2) = UsedEntries(C)
        /\ (unknown /\ ~targeted) => C2 = C

InputWhole ==
    \A msg \in ArpInputs :
        LET N2 == arp_input(NetMachine, msg, ARP_MSG_SIZE, EtherIface, 0)
            unknown == arp_cache_select(caches, msg.spa) = NULL
        IN  IF ValidArp(msg)
            THEN InputOutcome(caches, N2.caches, N2.frames, EtherIface, msg.op,
                              msg.sha, msg.spa, msg.tpa, unknown)
            ELSE N2 = NetMachine

\* the first part sends nothing, finds the sender unknown exactly when the
\* cache has no entry of it, and then leaves the cache as it is
InputFirstPart ==
    (arp_rx = NoMessage /\ arp_rx' # NoMessage) =>
        /\ frames' = <<>>
        /\ (arp_rx'.marge = 0) = (arp_cache_select(caches, arp_rx'.spa) = NULL)
        /\ arp_rx'.marge = 0 => caches' = caches
        /\ UsedEntries(caches') = UsedEntries(caches)

\* the second part replies, and inserts, from what the first part found
InputSecondPart ==
    (arp_rx # NoMessage /\ arp_rx' = NoMessage) =>
        InputOutcome(caches, caches', frames', arp_rx.iface, arp_rx.op, arp_rx.sha,
                     arp_rx.spa, arp_rx.tpa, arp_rx.marge = 0)

C19_ArpInputReplies == []InputWhole /\ [][InputFirstPart /\ InputSecondPart]_vars

\* arp_input has answered a request of the unknown peer and inserted it
C19_Witness ==
    /\ arp_rx = NoMessage
    /\ frames = <<ReplyFrame(EtherIface, PeerHa, Peer.addr)>>
    /\ \E c \in CacheIds : /\ caches[c].state = ARP_CACHE_STATE_RESOLVED
                            /\ caches[c].pa = Peer.addr
                            /\ caches[c].ha = PeerHa
    /\ \A c \in CacheIds : caches[c].state # ARP_CACHE_STATE_INCOMPLETE

(***************************************************************************)
(* C20: when ip_output is called for a datagram whose next hop, on a       *)
(* device that needs ARP, has no RESOLVED cache entry, no IP frame is      *)
(* handed to the device in that call, and ip_output does not return the    *)
(* payload length, the value of success; so udp_sendto does not return     *)
(* the number of bytes as sent, and a TCP segment is not taken as sent.    *)
(***************************************************************************)
\* the next hop ip_output picks for dst
NextHop(dst) ==
    LET route == ip_route_lookup(dst)
    IN  IF route.nexthop # IP_ADDR_ANY THEN route.nexthop ELSE dst

\* dst is routed over a device that needs ARP and the cache has no RESOLVED
\* entry of the next hop
Unresolved(dst) ==
    LET route == ip_route_lookup(dst)
        c == arp_cache_select(caches, NextHop(dst))
    IN  /\ route # NULL_ROUTE
        /\ route.iface.dev.need_arp
        /\ NextHop(dst) \notin {route.iface.broadcast, IP_ADDR_BROADCAST}
        /\ (c = NULL \/ caches[c].state # ARP_CACHE_STATE_RESOLVED)

\* ip_output for a TCP segment or a UDP datagram of one byte of payload
OutputFor(protocol, dst, drv) ==
    ip_output(NetMachine, protocol, <<97>>, 1, IP_ADDR_ANY, dst, drv)

NoFrameWhenUnresolved ==
    \A protocol \in {IP_PROTOCOL_TCP, IP_PROTOCOL_UDP}, f \in SendtoForeigns,
       drv \in DrvReturns :
        Unresolved(f.addr) => IpFrames(OutputFor(protocol, f.addr, drv).N.frames) = {}

\* ip_output, and with it udp_sendto, in a step of udp_sendto that got as
\* far as udp_output
SentTo(f) ==
    /\ urv'.op = "sendto"
    /\ urv'.out # <<>>
    /\ urv'.out.foreign = f
    /\ Unresolved(f.addr)

IncompleteReported ==
    \A f \in SendtoForeigns, protocol \in {IP_PROTOCOL_TCP, IP_PROTOCOL_UDP} :
        SentTo(f) =>
            /\ IpFrames(frames') = {}
            /\ OutputFor(protocol, f.addr, 0).ret # 1
            /\ urv'.ret # Len(urv'.out.data)

C20_IncompleteNotSent == []NoFrameWhenUnresolved /\ [][IncompleteReported]_vars

(***************************************************************************)
(* C22: for the routes installed and every destination dst, what           *)
(* ip_route_lookup returns is an installed route r with                    *)
(* (dst & r.netmask) = r.network whose netmask, read as a big-endian       *)
(* unsigned integer, is not below that of any matching route; it returns   *)
(* no route if and only if no installed route matches.                     *)
(***************************************************************************)
\* the places in list R of the routes that match dst
Matching(R, dst) == {k \in 1 .. Len(R) : MaskAnd(dst, R[k].netmask) = R[k].network}

LongestMatch(R, dst, r) ==
    IF Matching(R, dst) = {} THEN r = NULL_ROUTE
    ELSE /\ \E k \in Matching(R, dst) : r = R[k]
         /\ \A k \in Matching(R, dst) : R[k].netmask <= r.netmask

LookupLongest == \A dst \in RouteDsts : LongestMatch(routes, dst, ip_route_lookup(dst))

LookupReturned == route_rv.called => LongestMatch(routes, route_rv.dst, route_rv.route)

C22_RouteLookup == LookupLongest /\ LookupReturned

\* a lookup has returned the route of the longer netmask although a matching
\* route of a shorter one was installed after it, and another lookup none
C22_Witness ==
    /\ route_rv.called
    /\ route_rv.route # NULL_ROUTE
    /\ \E j, k \in Matching(routes, route_rv.dst) :
          /\ j < k
          /\ routes[k] = route_rv.route
          /\ routes[j].netmask < routes[k].netmask
    /\ \E dst \in RouteDsts : Matching(routes, dst) = {}

(***************************************************************************)
(* C23: ip_output returns -1, hands nothing to a device and takes no IP id *)
(* when (a) src is 0.0.0.0 and dst is 255.255.255.255, (b) no route        *)
(* matches dst, (c) src is not 0.0.0.0 and is not the unicast address of   *)
(* the interface of the route, or (d) 20 + len is more than the MTU of the *)
(* device.  Otherwise it takes one id and whatever it hands to the device  *)
(* is the datagram with that id, the interface's unicast address as source *)
(* and dst as destination, sent to the hardware address of the next hop    *)
(* (the route's nexthop if that is not 0.0.0.0, else dst), or the ARP      *)
(* REQUEST for that next hop.                                              *)
(***************************************************************************)
OutputSources == {IP_ADDR_ANY, EtherIface.unicast, LoopbackIface.unicast}

OutputDsts == {f.addr : f \in SendtoForeigns} \cup {IP_ADDR_BROADCAST, EtherIface.broadcast}

\* protocol and payload length: one byte, the longest payload the Ethernet
\* device takes, and one byte more than that
OutputCalls ==
    {<<IP_PROTOCOL_UDP, 1>>, <<IP_PROTOCOL_TCP, DevMtu - IP_HDR_SIZE_MIN>>,
     <<IP_PROTOCOL_UDP, DevMtu - IP_HDR_SIZE_MIN + 1>>}

OutputRefused(len, src, dst) ==
    LET route == ip_route_lookup(dst)
    IN  \/ src = IP_ADDR_ANY /\ dst = IP_ADDR_BROADCAST
        \/ route = NULL_ROUTE
        \/ src # IP_ADDR_ANY /\ src # route.iface.unicast
        \/ IP_HDR_SIZE_MIN + len > route.iface.dev.mtu

\* frame f carries the datagram of this call, or asks for its next hop
TowardsNextHop(f, protocol, len, dst) ==
    LET route == ip_route_lookup(dst)
        iface == route.iface
        nexthop == NextHop(dst)
        c == arp_cache_select(caches, nexthop)
    IN  /\ f.dev = iface.dev.name
        /\ IF f.type = NET_PROTOCOL_TYPE_IP
           THEN /\ f.data.src = iface.unicast
                /\ f.data.dst = dst
                /\ f.data.id = ip_id
                /\ f.data.protocol = protocol
                /\ f.data.total = IP_HDR_SIZE_MIN + len
                /\ IF ~iface.dev.need_arp THEN TRUE
                   ELSE IF nexthop \in {iface.broadcast, IP_ADDR_BROADCAST}
                   THEN f.dst = iface.dev.broadcast
                   ELSE /\ c # NULL
                        /\ caches[c].state = ARP_CACHE_STATE_RESOLVED
                        /\ f.dst = caches[c].ha
           ELSE /\ f.type = NET_PROTOCOL_TYPE_ARP
                /\ f.data.op = ARP_OP_REQUEST
                /\ f.data.tpa = nexthop
                /\ iface.dev.need_arp

OutputChecks ==
    \A call \in OutputCalls, src \in OutputSources, dst \in OutputDsts,
       drv \in DrvReturns :
        LET protocol == call[1]
            len == call[2]
            r == ip_output(NetMachine, protocol, <<97>>, len, src, dst, drv)
        IN  IF OutputRefused(len, src, dst)
            THEN r.ret = -1 /\ r.N = NetMachine
            ELSE /\ r.N.id = (ip_id + 1) % Pow16
                 /\ Len(r.N.frames) = IF drv = 0 THEN 1 ELSE 0
                 /\ \A k \in 1 .. Len(r.N.frames) :
                       TowardsNextHop(r.N.frames[k], protocol, len, dst)

C23_OutputChecks == OutputChecks

\* a bound socket has sent to an address no route leads to: udp_sendto has
\* returned -1, nothing went to a device and no id was taken, the one id
\* taken so far being that of an earlier call
C23_Witness ==
    /\ urv.op = "sendto"
    /\ urv.ret = ERROR
    /\ urv.out # <<>>
    /\ ip_route_lookup(urv.out.foreign.addr) = NULL_ROUTE
    /\ frames = <<>>
    /\ ip_id = IP_ID_FIRST + 1

(***************************************************************************)
(* C26: for a segment that matches no PCB, or a CLOSED one: with RST set   *)
(* nothing is sent; without ACK one segment RST|ACK with seq = 0 and       *)
(* ack = seg.seq + seg.len is sent, seg.len being the length of the text   *)
(* plus one for SYN plus one for FIN; with ACK one segment RST with        *)
(* seq = seg.ack and ack = 0 is sent.  In all three cases no PCB changes.  *)
(***************************************************************************)
\* segments of every combination of RST, ACK, SYN and FIN, without text and
\* with two bytes of it, sequence numbers at the end of the number space, to
\* the echo port and to a port nobody listens on
ResetProbes ==
    {Seg(U32(65535, 65535), U32(0, 101), fl, 2, d, src, Endpoint(a, p)) :
        fl \in SUBSET {TCP_FLG_RST, TCP_FLG_ACK, TCP_FLG_SYN, TCP_FLG_FIN},
        d \in {<<>>, Bytes(97, 2)}, src \in {Stranger},
        a \in HostAddrs, p \in {7, 9}}

\* segment h finds no PCB or a CLOSED one
Unmatched(h) ==
    LET i == tcp_pcb_select(pcbs, h.dst, h.src)
    IN  i = NULL \/ pcbs[i].state = TCP_PCB_STATE_CLOSED

\* the one segment that answers h with flags fl
ResetFor(h, seq, ack, fl) ==
    <<[seq |-> seq, ack |-> ack, flg |-> fl, wnd |-> 0, data |-> <<>>,
       src |-> h.dst, dst |-> h.src]>>

TextLen(h) ==
    BLen(h.data) + (IF TCP_FLG_SYN \in h.flg THEN 1 ELSE 0)
                 + (IF TCP_FLG_FIN \in h.flg THEN 1 ELSE 0)

ResetRule(h, sent) ==
    IF TCP_FLG_RST \in h.flg THEN sent = <<>>
    ELSE IF TCP_FLG_ACK \notin h.flg
    THEN sent = ResetFor(h, Zero32, Add32(h.seq, TextLen(h)), {TCP_FLG_RST, TCP_FLG_ACK})
    ELSE sent = ResetFor(h, h.ack, Zero32, {TCP_FLG_RST})

ResetsSent ==
    \A h \in ResetProbes \cup StraySegs :
        Unmatched(h) =>
            LET M2 == tcp_input(Machine, h, h.src.addr, h.dst.addr, Zero32)
            IN  /\ ResetRule(h, M2.tx)
                /\ M2.pcbs = pcbs
                /\ M2.thr = thr

C26_NoPcbReset == ResetsSent

\* with a connection open on the echo port, a segment with ACK of a host
\* that has none has drawn the RST
C26_Witness ==
    /\ \E i \in PcbIds : pcbs[i].state = TCP_PCB_STATE_ESTABLISHED
    /\ Len(tx) = 1
    /\ tx[1].flg = {TCP_FLG_RST}
    /\ tx[1].dst = Stranger
    /\ tx[1].seq = U32(0, 101)
    /\ tx[1].ack = Zero32

(***************************************************************************)
(* C29: sched_ctx_destroy on a context that still has sleepers (wc > 0)    *)
(* returns an error and leaves the context as it is, and the wakeup its    *)
(* caller tcp_pcb_release then issues reaches those sleepers: the PCB is   *)
(* kept and every thread blocked on it is released.  Stated of every       *)
(* outcome pthread_cond_destroy can have, in every reachable state.        *)
(***************************************************************************)
DestroyRefusesSleepers ==
    \A i \in PcbIds : \A o \in DestroyOutcomes(thr, i) :
        (pcbs[i].state # TCP_PCB_STATE_FREE /\ pcbs[i].ctx.wc > 0) =>
            LET r == sched_ctx_destroy(o)
                M2 == tcp_pcb_release(Machine, i, r)
            IN  /\ o # "hang"
                /\ r # 0
                /\ M2.pcbs[i] = pcbs[i]
                /\ \A t \in Waiters(thr, i) : M2.thr[t].woken

\* a step taken while a context has sleepers leaves its PCB allocated and
\* leaves no thread blocked on a context that was torn down
KeptWhileSleepers ==
    \A i \in PcbIds :
        (pcbs[i].state # TCP_PCB_STATE_FREE /\ pcbs[i].ctx.wc > 0) =>
            /\ pcbs'[i].state # TCP_PCB_STATE_FREE
            /\ \A t \in Threads : ~thr'[t].orphan

C29_DestroyRefuses == [][KeptWhileSleepers]_vars

(***************************************************************************)
(* C30: a sched_sleep that returns because of sched_interrupt returns the  *)
(* interrupted error, and the last such sleeper clears the flag: when a    *)
(* call has just returned EINTR from sched_sleep and the waiter count of   *)
(* its context is 0, the interrupted flag is 0, also when the interrupt    *)
(* was issued while no thread was sleeping; a sleep ended by a wakeup      *)
(* without an interrupt returns success.                                   *)
(***************************************************************************)
\* on this step a call on PCB i returns the interrupted error
ReturnsInterrupted(i) ==
    /\ rv' # rv
    /\ rv'.id = i
    /\ rv'.ret = ERROR
    /\ rv'.errno = EINTR

FlagClearedByLast ==
    \A i \in PcbIds :
        (ReturnsInterrupted(i) /\ pcbs'[i].state # TCP_PCB_STATE_FREE
                               /\ pcbs'[i].ctx.wc = 0) =>
            pcbs'[i].ctx.interrupted = 0

\* a thread that leaves sched_sleep with the flag set returns interrupted,
\* one that leaves it with the flag clear does not
WokenReturn ==
    \A t \in Threads :
        (Sleeping(thr, t) /\ thr[t].woken /\ ~Sleeping(thr', t) /\ thr'[t].pc # "destroy"
            /\ rv' # rv /\ rv'.t = t) =>
            LET i == thr[t].id
            IN  IF pcbs[i].ctx.interrupted # 0
                THEN (rv'.errno = EINTR \/ (rv'.op = "send" /\ rv'.ret > 0))
                ELSE rv'.errno # EINTR

C30_InterruptedSleep == [][FlagClearedByLast]_vars

\* the part of C30 about the return value
WokenReturns == [][WokenReturn]_vars

(***************************************************************************)
(* C27: in every reachable state, however arp_input on the dispatch thread *)
(* is interleaved with arp_resolve on application threads, the ARP cache   *)
(* holds at most one non-FREE entry per protocol address.                  *)
(***************************************************************************)
C27_OneEntryPerAddress ==
    \A c \in UsedEntries(caches), d \in UsedEntries(caches) :
        caches[c].pa = caches[d].pa => c = d

(***************************************************************************)
(* The PCB tables near their limits: the process has opened UDP sockets    *)
(* and accepted TCP connections until two, one or no slot of a table is    *)
(* left, and two threads go on opening.                                    *)
(***************************************************************************)
MaxLimitSteps == 4

\* how many slots are in use when the threads go on
LimitInUse == {TCP_PCB_SIZE - 2, TCP_PCB_SIZE - 1, TCP_PCB_SIZE}

\* the tables of TCP before the first call
NoPcbs ==
    [pcbs |-> [i \in PcbIds |-> ZeroPcb], thr |-> [t \in Threads |-> IdleThread],
     tx |-> <<>>, rv |-> NoReturn, rxlog |-> [i \in PcbIds |-> <<>>],
     rdlog |-> [i \in PcbIds |-> <<>>], overrun |-> [i \in PcbIds |-> "none"]]

\* a connection as tcp_open_rfc793 returns it: the passive open, the SYN of
\* the peer, its ACK of our SYN, and the opener woken
Accepted ==
    LET local == Endpoint(EtherIface.unicast, 7)
        irs == U32(0, 300)
        iss == U32(0, 100)
        M1 == tcp_open_rfc793(NoPcbs, "t1", Endpoint(IP_ADDR_ANY, 7), NULL_ENDPOINT,
                              FALSE, "ok")
        M2 == tcp_input(M1, Seg(irs, Zero32, {TCP_FLG_SYN}, 8192, <<>>, Peer, local),
                        Peer.addr, local.addr, iss)
        M3 == tcp_input(M2, Seg(Add32(irs, 1), Add32(iss, 1), {TCP_FLG_ACK}, 8192, <<>>,
                                Peer, local),
                        Peer.addr, local.addr, iss)
    IN  Wakeup(M3, "t1", FALSE, "ok").pcbs[0]

\* slot i holds the connection of the peer's port 2000 + i
AcceptedAt(i) == [Accepted EXCEPT !.foreign.port = 2000 + i]

\* a socket as udp_open returns it
Opened == [ZeroUdpPcb EXCEPT !.state = UDP_PCB_STATE_OPEN]

LimitInit ==
    /\ StartRest(MaxLimitSteps, OnLinkRoutes)
    /\ net_protocols = <<NET_PROTOCOL_TYPE_IP, NET_PROTOCOL_TYPE_ARP>>
    /\ ip_protocols = <<IP_PROTOCOL_TCP, IP_PROTOCOL_UDP, IP_PROTOCOL_ICMP>>
    /\ subscribers = <<IP_PROTOCOL_TCP, IP_PROTOCOL_UDP>>
    /\ \E n \in LimitInUse :
          pcbs = [i \in PcbIds |-> IF i < n THEN AcceptedAt(i) ELSE ZeroPcb]
    /\ \E n \in LimitInUse :
          udp_pcbs = [i \in UdpPcbIds |-> IF i < n THEN Opened ELSE ZeroUdpPcb]

LimitSyn == Arrival(SynSegs)

LimitNext ==
    \/ \E t \in Threads : CallOpen(t)
    \/ \E t \in Threads : Resume(t)
    \/ LimitSyn
    \/ EventInterrupt
    \/ \E t \in Threads : UdpOpen(t)

LimitSpec == LimitInit /\ [][LimitNext]_vars

(***************************************************************************)
(* C25: at most 16 UDP PCBs and at most 16 TCP PCBs are in use at any      *)
(* time; udp_open or tcp_open_rfc793 called while every slot of its table  *)
(* is in use returns an error and changes no PCB; and a tcp_open_rfc793    *)
(* that fails, because an active open was asked for or because the wait    *)
(* was interrupted, leaves no slot allocated that was FREE before.         *)
(***************************************************************************)
TcpInUse(P) == {i \in PcbIds : P[i].state # TCP_PCB_STATE_FREE}

UdpInUse(P) == {i \in UdpPcbIds : P[i].state # UDP_PCB_STATE_FREE}

WithinLimits ==
    /\ Cardinality(TcpInUse(pcbs)) <= TCP_PCB_SIZE
    /\ Cardinality(UdpInUse(udp_pcbs)) <= UDP_PCB_SIZE

\* every open a thread can make on a full table is refused and changes nothing
FullTableRefuses ==
    /\ TcpInUse(pcbs) = PcbIds =>
          \A t \in Threads, local \in OpenLocals, foreign \in OpenForeigns,
             active \in BOOLEAN, o \in Destroys :
              thr[t].pc = "idle" =>
                  LET M == tcp_open_rfc793(Machine, t, local, foreign, active, o)
                  IN  /\ M.rv.ret = ERROR
                      /\ M.pcbs = pcbs
                      /\ M.thr = thr
    /\ UdpInUse(udp_pcbs) = UdpPcbIds =>
          \A t \in Threads :
              uthr[t].pc = "idle" =>
                  LET M == udp_open(UdpMachine, t)
                  IN  /\ M.rv.ret = ERROR
                      /\ M.pcbs = udp_pcbs

\* a step on which tcp_open_rfc793 returns -1 frees the slot the call had
\* taken and takes no slot that was FREE
FailedOpenLeavesNothing ==
    (rv' # rv /\ rv'.op = "open" /\ rv'.ret = ERROR) =>
        /\ rv'.id # NULL => pcbs'[rv'.id].state = TCP_PCB_STATE_FREE
        /\ \A i \in PcbIds :
              pcbs[i].state = TCP_PCB_STATE_FREE => pcbs'[i].state = TCP_PCB_STATE_FREE
        /\ TcpInUse(pcbs') \subseteq TcpInUse(pcbs)

\* a step on which udp_open returns -1 changes no PCB
RefusedUdpOpen ==
    (urv' # urv /\ urv'.op = "open" /\ urv'.ret = ERROR) => udp_pcbs' = udp_pcbs

C25_PcbLimits ==
    /\ [](WithinLimits /\ FullTableRefuses)
    /\ [][FailedOpenLeavesNothing /\ RefusedUdpOpen]_vars

\* both tables are full and the last open on each was refused
C25_Witness ==
    /\ TcpInUse(pcbs) = PcbIds
    /\ UdpInUse(udp_pcbs) = UdpPcbIds
    /\ rv.op = "open" /\ rv.ret = ERROR /\ rv.id = NULL
    /\ urv.op = "open" /\ urv.ret = ERROR
    /\ \E i \in PcbIds : pcbs[i].state = TCP_PCB_STATE_LISTEN

\* a passive open was interrupted in its wait and has given its slot back
InterruptedOpenSeen ==
    /\ rv.op = "open" /\ rv.ret = ERROR /\ rv.errno = EINTR
    /\ rv.id # NULL
    /\ pcbs[rv.id].state = TCP_PCB_STATE_FREE

(***************************************************************************)
(* The way in (net.c, ip.c, icmp.c, udp.c, tcp.c): the initialisation that *)
(* registers the protocols, and ip_input with the input functions it       *)
(* hands a datagram to.  A datagram is the sequence of its 16-bit words in *)
(* network order and the number of bytes received; an address takes two    *)
(* words, the first of them 0.                                             *)
(***************************************************************************)
MaxNetSteps == 4

ICMP_HDR_SIZE == 8

ICMP_TYPE_ECHOREPLY == 0

ICMP_TYPE_ECHO == 8

Hi(w) == w \div 256

Lo(w) == w % 256

\* the sum of the first n words of ws
RECURSIVE WordSum(_, _)
WordSum(ws, n) == IF n = 0 THEN 0 ELSE ws[n] + WordSum(ws, n - 1)

\* while (sum >> 16) sum = (sum & 0xffff) + (sum >> 16)
RECURSIVE Fold16(_)
Fold16(x) == IF x < Pow16 THEN x ELSE Fold16((x % Pow16) + (x \div Pow16))

\* cksum16(addr, count, init): the complement of the ones-complement sum of
\* the first count bytes; a last odd byte counts as the high byte of a word
cksum16(ws, count, init) ==
    LET n == count \div 2
        odd == IF count % 2 = 1 THEN Hi(ws[n + 1]) * 256 ELSE 0
    IN  65535 - Fold16(init + WordSum(ws, n) + odd)

\* the address in two words of a header
WordsAddr(hi, lo) == hi * Pow16 + lo

\* ~cksum16(&pseudo, sizeof(pseudo), 0) of the pseudo header of UDP and TCP;
\* pseudo.len is a uint16_t
PseudoSum(src, dst, protocol, len) ==
    65535 - cksum16(<<src \div Pow16, src % Pow16, dst \div Pow16, dst % Pow16,
                      protocol, len % Pow16>>, 12, 0)

\* bytes i .. j-1 of the words ws (0-based), as a sequence of bytes
ByteAt(ws, k) == IF k % 2 = 0 THEN Hi(ws[k \div 2 + 1]) ELSE Lo(ws[k \div 2 + 1])

ByteSeq(ws, i, j) == [k \in 1 .. (j - i) |-> ByteAt(ws, i + k - 1)]

\* a sequence of bytes as a byte string
RECURSIVE ToRuns(_)
ToRuns(bs) == IF bs = <<>> THEN <<>> ELSE BCat(Bytes(Head(bs), 1), ToRuns(Tail(bs)))

\* the control bits of the byte flg
FlagSet(flg) ==
    {f \in {TCP_FLG_FIN, TCP_FLG_SYN, TCP_FLG_RST, TCP_FLG_PSH, TCP_FLG_ACK} :
        BitAnd(flg, f) # 0}

InList(x, L) == \E k \in 1 .. Len(L) : L[k] = x

\* net_protocol_register and ip_protocol_register: a type is registered
\* once, the new entry goes to the head of the list
protocol_register(L, type) ==
    IF InList(type, L) THEN Result(L, -1) ELSE Result(<<type>> \o L, 0)

\* net_event_subscribe
net_event_subscribe(L, handler) == <<handler>> \o L

\* the registrations a call works on
Registry == [net |-> net_protocols, ip |-> ip_protocols, subs |-> subscribers]

arp_init(S) ==
    LET r == protocol_register(S.net, NET_PROTOCOL_TYPE_ARP)
    IN  Result([S EXCEPT !.net = r.N], r.ret)

ip_init(S) ==
    LET r == protocol_register(S.net, NET_PROTOCOL_TYPE_IP)
    IN  Result([S EXCEPT !.net = r.N], r.ret)

icmp_init(S) ==
    LET r == protocol_register(S.ip, IP_PROTOCOL_ICMP)
    IN  Result([S EXCEPT !.ip = r.N], r.ret)

udp_init(S) ==
    LET r == protocol_register(S.ip, IP_PROTOCOL_UDP)
    IN  IF r.ret = -1 THEN Result(S, -1)
        ELSE Result([S EXCEPT !.ip = r.N,
                              !.subs = net_event_subscribe(@, IP_PROTOCOL_UDP)], 0)

tcp_init(S) ==
    LET r == protocol_register(S.ip, IP_PROTOCOL_TCP)
    IN  IF r.ret = -1 THEN Result(S, -1)
        ELSE Result([S EXCEPT !.ip = r.N,
                              !.subs = net_event_subscribe(@, IP_PROTOCOL_TCP)], 0)

\* net_init: intr_init, then the protocols in this order, up to the first
\* that fails
net_init(S) ==
    LET a == arp_init(S)
        i == ip_init(a.N)
        c == icmp_init(i.N)
        u == udp_init(c.N)
    IN  IF a.ret = -1 THEN Result(a.N, -1)
        ELSE IF i.ret = -1 THEN Result(i.N, -1)
        ELSE IF c.ret = -1 THEN Result(c.N, -1)
        ELSE IF u.ret = -1 THEN Result(u.N, -1)
        ELSE Result(u.N, 0)

\* ip_input leaves the datagram alone
Dropped == [handler |-> 0, data |-> <<>>, len |-> 0, src |-> 0, dst |-> 0]

\* ip_input(data, len, dev) up to the call of the handler: what it hands
\* over.  len of the result is total - hlen as the int it is computed in;
\* the handler takes it as a size_t, so a negative value stands for
\* 2^64 + len.
ip_input(data, len, iface, protocols) ==
    IF len < IP_HDR_SIZE_MIN THEN Dropped
    ELSE LET vhl == Hi(data[1])
             hlen == (vhl % 16) * 4
             total == data[2]
             offset == data[4]
             protocol == Lo(data[5])
             src == WordsAddr(data[7], data[8])
             dst == WordsAddr(data[9], data[10])
         IN  IF vhl \div 16 # IP_VERSION_IPV4 THEN Dropped
             ELSE IF len < hlen THEN Dropped
             ELSE IF len < total THEN Dropped
             ELSE IF cksum16(data, hlen, 0) # 0 THEN Dropped
             ELSE IF BitAnd(offset, 8192) # 0 \/ BitAnd(offset, 8191) # 0 THEN Dropped
             ELSE IF iface = NULL_IFACE THEN Dropped
             ELSE IF /\ dst # iface.unicast
                     /\ dst # iface.broadcast
                     /\ dst # IP_ADDR_BROADCAST THEN Dropped
             ELSE IF ~InList(protocol, protocols) THEN Dropped
             ELSE [handler |-> protocol,
                   data |-> SubSeq(data, hlen \div 2 + 1, Len(data)),
                   len |-> total - hlen, src |-> src, dst |-> dst]

\* what a handler has done: its tables, and whether it has read or written
\* outside the datagram.  After that the model follows the program no
\* further: it has stopped with a fault or goes on with what it found there.
Handled(M, beyond) == [M |-> M, beyond |-> beyond]

\* the count cksum16 takes from a size_t: a uint16_t
AsCount(len) == len % Pow16

\* udp_input(data, len, src, dst, iface).  With a wrapped len the length
\* test fails whatever hdr->len holds; u is what reading it does when the
\* header lies outside the datagram.
udp_input_raw(M, data, len, src, dst, u) ==
    IF len >= 0 /\ len < UDP_HDR_SIZE THEN Handled(M, FALSE)
    ELSE IF Len(data) < 4 THEN Handled(M, u = "beyond")
    ELSE IF len # data[3] THEN Handled(M, FALSE)
    ELSE IF cksum16(data, AsCount(len), PseudoSum(src, dst, IP_PROTOCOL_UDP, len)) # 0
    THEN Handled(M, FALSE)
    ELSE Handled(udp_input(M, Endpoint(src, data[1]), Endpoint(dst, data[2]),
                           ByteSeq(data, UDP_HDR_SIZE, len)), FALSE)

\* tcp_input(data, len, src, dst, iface); u is what a checksum over bytes
\* outside the datagram does
tcp_input_raw(M, data, len, src, dst, iface, iss, u) ==
    IF len >= 0 /\ len < TCP_HDR_SIZE THEN Handled(M, FALSE)
    ELSE IF AsCount(len) > 2 * Len(data) \/ Len(data) < 10 THEN Handled(M, u = "beyond")
    ELSE IF cksum16(data, AsCount(len), PseudoSum(src, dst, IP_PROTOCOL_TCP, len)) # 0
    THEN Handled(M, FALSE)
    ELSE IF \/ src = IP_ADDR_BROADCAST \/ src = iface.broadcast
            \/ dst = IP_ADDR_BROADCAST \/ dst = iface.broadcast
    THEN Handled(M, FALSE)
    ELSE LET hlen == (Hi(data[7]) \div 16) * 4
         IN  IF len < 0 \/ hlen > len THEN Handled(M, TRUE)
             ELSE Handled(
                     tcp_input(M, Seg(U32(data[3], data[4]), U32(data[5], data[6]),
                                      FlagSet(Lo(data[7])), data[8],
                                      ToRuns(ByteSeq(data, hlen, len)),
                                      Endpoint(src, data[1]), Endpoint(dst, data[2])),
                               src, dst, iss),
                     FALSE)

\* icmp_output(type, code, values, data, len, src, dst)
icmp_output(N, type, code, values, data, len, src, dst, drv) ==
    LET msg_len == ICMP_HDR_SIZE + len
        msg == <<type * 256 + code, 0, values[1], values[2]>> \o data
    IN  ip_output(N, IP_PROTOCOL_ICMP,
                  [msg EXCEPT ![2] = cksum16(msg, msg_len, 0)], msg_len, src, dst, drv)

\* icmp_input(data, len, src, dst, iface)
icmp_input(N, data, len, src, dst, iface, drv, u) ==
    IF len >= 0 /\ len < ICMP_HDR_SIZE THEN Handled(N, FALSE)
    ELSE IF AsCount(len) > 2 * Len(data) \/ Len(data) < 4 THEN Handled(N, u = "beyond")
    ELSE IF cksum16(data, AsCount(len), 0) # 0 THEN Handled(N, FALSE)
    ELSE IF Hi(data[1]) = ICMP_TYPE_ECHO
    THEN Handled(icmp_output(N, ICMP_TYPE_ECHOREPLY, Lo(data[1]), <<data[3], data[4]>>,
                             SubSeq(data, 5, (len + 1) \div 2), len - ICMP_HDR_SIZE,
                             iface.unicast, src, drv).N, FALSE)
    ELSE Handled(N, FALSE)

\* the datagrams that arrive on the Ethernet device -------------------------
\* the header of a datagram with ihl words, its checksum filled in; opts are
\* the words of the options
IpHeader(v, ihl, total, offset, protocol, src, dst, opts) ==
    LET h == <<(v * 16 + ihl) * 256, total, 1, offset, 255 * 256 + protocol, 0,
               src \div Pow16, src % Pow16, dst \div Pow16, dst % Pow16>> \o opts
    IN  [h EXCEPT ![6] = cksum16(h, ihl * 4, 0)]

\* a header that gives its length as 2 words: the checksum covers the first
\* 8 bytes only, and the identification is chosen to make it come out
ShortHeader(total, protocol, src, dst) ==
    LET h == <<(IP_VERSION_IPV4 * 16 + 2) * 256, total, 0, 0, 255 * 256 + protocol, 0,
               src \div Pow16, src % Pow16, dst \div Pow16, dst % Pow16>>
    IN  [h EXCEPT ![3] = cksum16(h, 8, 0)]

UdpMessage(sport, dport, data, src, dst) ==
    LET len == UDP_HDR_SIZE + 2 * Len(data)
        m == <<sport, dport, len, 0>> \o data
    IN  [m EXCEPT ![4] = cksum16(m, len, PseudoSum(src, dst, IP_PROTOCOL_UDP, len))]

TcpMessage(sport, dport, seq, ack, flg, wnd, data, src, dst) ==
    LET len == TCP_HDR_SIZE + 2 * Len(data)
        m == <<sport, dport, seq[1], seq[2], ack[1], ack[2], 5 * 16 * 256 + flg, wnd,
               0, 0>> \o data
    IN  [m EXCEPT ![9] = cksum16(m, len, PseudoSum(src, dst, IP_PROTOCOL_TCP, len))]

IcmpEcho(id, seq, data) ==
    LET m == <<ICMP_TYPE_ECHO * 256, 0, id, seq>> \o data
    IN  [m EXCEPT ![2] = cksum16(m, ICMP_HDR_SIZE + 2 * Len(data), 0)]

\* the words ws, received whole, cut short by cut bytes or followed by
\* padding (cut < 0)
Received(ws, cut) ==
    [words |-> IF cut > 0 THEN SubSeq(ws, 1, Len(ws) - cut \div 2)
               ELSE ws \o [k \in 1 .. (-cut) \div 2 |-> 0],
     len |-> 2 * Len(ws) - cut]

\* the messages of the peer for this host: to the echo port of UDP, a SYN to
\* the echo port of TCP, and an echo request
UpperMessages(src, dst) ==
    {<<IP_PROTOCOL_UDP, UdpMessage(1000, 7, <<24930>>, src, dst)>>,
     <<IP_PROTOCOL_TCP, TcpMessage(1000, 7, U32(0, 1000), Zero32, TCP_FLG_SYN, 8192,
                                   <<>>, src, dst)>>,
     <<IP_PROTOCOL_ICMP, IcmpEcho(1, 1, <<24930>>)>>}

\* the same message under every kind of header
HeaderKinds ==
    {"good", "padded", "options", "version", "sum", "more", "offset", "truncated",
     "short", "small", "elsewhere", "broadcast"}

Under(kind, protocol, m) ==
    LET src == Peer.addr
        dst == EtherIface.unicast
        total == IP_HDR_SIZE_MIN + 2 * Len(m)
        good == IpHeader(IP_VERSION_IPV4, 5, total, 0, protocol, src, dst, <<>>)
    IN  CASE kind = "good" -> Received(good \o m, 0)
          [] kind = "padded" -> Received(good \o m, -2)
          [] kind = "options" ->
                Received(IpHeader(IP_VERSION_IPV4, 6, total + 4, 0, protocol, src, dst,
                                  <<257, 257>>) \o m, 0)
          [] kind = "version" ->
                Received(IpHeader(6, 5, total, 0, protocol, src, dst, <<>>) \o m, 0)
          [] kind = "sum" -> Received([good EXCEPT ![6] = (@ + 1) % Pow16] \o m, 0)
          [] kind = "more" ->
                Received(IpHeader(IP_VERSION_IPV4, 5, total, 8192, protocol, src, dst,
                                  <<>>) \o m, 0)
          [] kind = "offset" ->
                Received(IpHeader(IP_VERSION_IPV4, 5, total, 1, protocol, src, dst,
                                  <<>>) \o m, 0)
          [] kind = "truncated" -> Received(good \o m, 2)
          [] kind = "short" -> Received(ShortHeader(total, protocol, src, dst) \o m, 0)
          [] kind = "small" ->
                Received(IpHeader(IP_VERSION_IPV4, 5, IP_HDR_SIZE_MIN - 4, 0, protocol,
                                  src, dst, <<>>) \o m, 0)
          [] kind = "elsewhere" ->
                Received(IpHeader(IP_VERSION_IPV4, 5, total, 0, protocol, src, Other,
                                  <<>>) \o m, 0)
          [] kind = "broadcast" ->
                Received(IpHeader(IP_VERSION_IPV4, 5, total, 0, protocol, src,
                                  EtherIface.broadcast, <<>>) \o m, 0)

NetDatagrams ==
    {Under(kind, pm[1], pm[2]) :
        kind \in HeaderKinds, pm \in UpperMessages(Peer.addr, EtherIface.unicast)}
    \cup {Received(SubSeq(IpHeader(IP_VERSION_IPV4, 5, IP_HDR_SIZE_MIN, 0,
                                   IP_PROTOCOL_UDP, Peer.addr, EtherIface.unicast, <<>>),
                          1, 9), 0)}

\* the process has not gone outside a datagram
NetIntact == ~ip_rx.beyond

NetQuiet == UNCHANGED <<tcpvars, udpvars, ipvars, ip_rx, route_rv, lockvars, drvvars>>

\* the application calls net_init
NetInit ==
    /\ NetIntact
    /\ budget > 0
    /\ LET r == net_init(Registry)
       IN  /\ net_protocols' = r.N.net
           /\ ip_protocols' = r.N.ip
           /\ subscribers' = r.N.subs
           /\ net_rv' = [op |-> "net_init", ret |-> r.ret]
    /\ budget' = budget - 1
    /\ NetQuiet

\* the application calls tcp_init
TcpInit ==
    /\ NetIntact
    /\ budget > 0
    /\ LET r == tcp_init(Registry)
       IN  /\ net_protocols' = r.N.net
           /\ ip_protocols' = r.N.ip
           /\ subscribers' = r.N.subs
           /\ net_rv' = [op |-> "tcp_init", ret |-> r.ret]
    /\ budget' = budget - 1
    /\ NetQuiet

NetUdpOpen(t) == NetIntact /\ UdpOpen(t)

\* udp_bind of socket 0 to the echo port
NetUdpBind(t) ==
    /\ NetIntact
    /\ UdpCanCall(t)
    /\ UdpCommit(udp_bind(UdpMachine, t, 0, Endpoint(IP_ADDR_ANY, 7)), t)
    /\ budget' = budget - 1

\* a passive tcp_open_rfc793 on the echo port
NetListen(t) == NetIntact /\ OpenCall(t, {FALSE})

\* net_input_handler queues the datagram for the protocol registered for its
\* type, and the softirq runs that protocol's handler on it
net_input(d) ==
    IF InList(NET_PROTOCOL_TYPE_IP, net_protocols)
    THEN ip_input(d.words, d.len, EtherIface, ip_protocols)
    ELSE Dropped

\* the handler ip_input calls, for each of the three protocols
TcpHandler(rx, iss, u) ==
    IF rx.handler = IP_PROTOCOL_TCP
    THEN tcp_input_raw(Machine, rx.data, rx.len, rx.src, rx.dst, EtherIface, iss, u)
    ELSE Handled(Machine, FALSE)

UdpHandler(rx, u) ==
    IF rx.handler = IP_PROTOCOL_UDP
    THEN udp_input_raw(UdpMachine, rx.data, rx.len, rx.src, rx.dst, u)
    ELSE Handled(UdpMachine, FALSE)

IcmpHandler(rx, drv, u) ==
    IF rx.handler = IP_PROTOCOL_ICMP
    THEN icmp_input(NetMachine, rx.data, rx.len, rx.src, rx.dst, EtherIface, drv, u)
    ELSE Handled(NetMachine, FALSE)

\* the step ends for the datagram d
NetCommit(d, rx, T, U, N) ==
    /\ ip_rx' = [words |-> d.words, rlen |-> d.len, handler |-> rx.handler,
                 len |-> rx.len, beyond |-> T.beyond \/ U.beyond \/ N.beyond]
    /\ pcbs' = T.M.pcbs
    /\ thr' = T.M.thr
    /\ tx' = T.M.tx
    /\ rv' = T.M.rv
    /\ rxlog' = T.M.rxlog
    /\ rdlog' = T.M.rdlog
    /\ overrun' = T.M.overrun
    /\ udp_pcbs' = U.M.pcbs
    /\ uthr' = U.M.thr
    /\ urv' = U.M.rv
    /\ caches' = N.M.caches
    /\ ticks' = N.M.ticks
    /\ frames' = N.M.frames
    /\ ip_id' = N.M.id
    /\ UNCHANGED <<tcp_mutex, udp_mutex, routes, arp_rx, arp_rv, net_protocols,
                   ip_protocols, subscribers, net_rv, route_rv, lockvars,
                   drvvars>>

NetDeliver(d, rx, iss, drv, u) ==
    NetCommit(d, rx, TcpHandler(rx, iss, u), UdpHandler(rx, u), IcmpHandler(rx, drv, u))

\* a datagram arrives on the Ethernet device
IpInput ==
    /\ NetIntact
    /\ Intact
    /\ tcp_mutex = NoThread
    /\ udp_mutex = NoThread
    /\ budget > 0
    /\ \E d \in NetDatagrams, iss \in IssValues, u \in {"drop", "beyond"} :
          NetDeliver(d, net_input(d), iss, 0, u)
    /\ budget' = budget - 1

\* the process before net_init, its devices and interfaces set up
NetStart ==
    /\ StartTables(MaxNetSteps, OnLinkRoutes)
    /\ net_protocols = <<>>
    /\ ip_protocols = <<>>
    /\ subscribers = <<>>

NetNext ==
    \/ NetInit
    \/ TcpInit
    \/ \E t \in Threads : NetUdpOpen(t)
    \/ \E t \in Threads : NetUdpBind(t)
    \/ \E t \in Threads : NetListen(t)
    \/ IpInput

NetSpec == NetStart /\ [][NetNext]_vars

(***************************************************************************)
(* C21: every datagram ip_input hands to a protocol's handler has version  *)
(* 4, a header of at least 5 words, a total length within the received     *)
(* length, a valid header checksum, MF = 0 and fragment offset 0, and the  *)
(* length handed over, total - header length, is not negative; a datagram  *)
(* that fails one of these reaches no handler and no PCB and draws no ICMP *)
(* message.                                                                *)
(***************************************************************************)
\* the header fields of the datagram of the last step
RxVersion == Hi(ip_rx.words[1]) \div 16

RxIhl == Hi(ip_rx.words[1]) % 16

RxTotal == ip_rx.words[2]

RxOffset == ip_rx.words[4]

HandedOver == ip_rx.handler # 0

\* the checks ip_input makes
CheckedFields ==
    /\ RxVersion = IP_VERSION_IPV4
    /\ RxTotal <= ip_rx.rlen
    /\ cksum16(ip_rx.words, RxIhl * 4, 0) = 0
    /\ BitAnd(RxOffset, 8192) = 0
    /\ BitAnd(RxOffset, 8191) = 0

\* the two it does not make
LengthsInOrder == RxIhl >= 5 /\ ip_rx.len >= 0

C21_AcceptedDatagrams == HandedOver => (CheckedFields /\ LengthsInOrder)

\* what holds of C21: the checks that are made, and the silence of a drop
HandedOverChecked == HandedOver => CheckedFields

DropIsSilent ==
    [][(ip_rx' # ip_rx /\ ip_rx'.handler = 0) =>
          /\ pcbs' = pcbs
          /\ udp_pcbs' = udp_pcbs
          /\ caches' = caches
          /\ frames' = <<>>
          /\ tx' = <<>>
          /\ ~ip_rx'.beyond]_vars

(***************************************************************************)
(* C24: once net_init has returned 0, handlers are registered for the ARP  *)
(* and IPv4 types and for the protocols ICMP, UDP and TCP, and UDP and TCP *)
(* are both subscribed to the EVENT interrupt; so a valid TCP segment for  *)
(* a local interface that arrives afterwards reaches the processing of     *)
(* arriving segments.                                                      *)
(***************************************************************************)
Initialised == net_rv.op = "net_init" /\ net_rv.ret = 0

AllRegistered ==
    /\ InList(NET_PROTOCOL_TYPE_ARP, net_protocols)
    /\ InList(NET_PROTOCOL_TYPE_IP, net_protocols)
    /\ InList(IP_PROTOCOL_ICMP, ip_protocols)
    /\ InList(IP_PROTOCOL_UDP, ip_protocols)
    /\ InList(IP_PROTOCOL_TCP, ip_protocols)
    /\ InList(IP_PROTOCOL_UDP, subscribers)
    /\ InList(IP_PROTOCOL_TCP, subscribers)

\* the valid SYN of the peer, as it arrives
ValidSyn == Under("good", IP_PROTOCOL_TCP,
                  TcpMessage(1000, 7, U32(0, 1000), Zero32, TCP_FLG_SYN, 8192, <<>>,
                             Peer.addr, EtherIface.unicast))

\* in the state after net_init, the SYN is handed to tcp_input
SynReachesTcp == net_input(ValidSyn).handler = IP_PROTOCOL_TCP

C24_InitRegisters == Initialised => (AllRegistered /\ SynReachesTcp)

\* what net_init does register
InitRegistersOthers ==
    Initialised =>
        /\ InList(NET_PROTOCOL_TYPE_ARP, net_protocols)
        /\ InList(NET_PROTOCOL_TYPE_IP, net_protocols)
        /\ InList(IP_PROTOCOL_ICMP, ip_protocols)
        /\ InList(IP_PROTOCOL_UDP, ip_protocols)
        /\ InList(IP_PROTOCOL_UDP, subscribers)

\* once tcp_init has been called as well, the SYN reaches tcp_input
TcpInitRegisters ==
    (net_rv.op = "tcp_init" /\ net_rv.ret = 0 /\ InList(NET_PROTOCOL_TYPE_IP, net_protocols))
        => SynReachesTcp

-----------------------------------------------------------------------------
\* The mutexes.  A call is followed through the mutex operations it makes,
\* in the order of the code; what it does between them is left out.  A
\* thread that sleeps in sched_sleep gives its mutex up and takes it again
\* when it is woken.

MaxLockSteps == 4

Lock(m) == <<"lock", m>>

Unlock(m) == <<"unlock", m>>

\* pthread_cond_wait: the mutex is released for the wait and taken again
sched_sleep_locks(m) == <<Unlock(m), Lock(m)>>

\* the devices an interface can stand on: the loopback device, which takes
\* its mutex to queue the frame, and the Ethernet device, which needs ARP
LockDevices == {"loopback", "ether"}

transmit_locks(dev) ==
    IF dev = "loopback" THEN <<Lock("loopback"), Unlock("loopback")>> ELSE <<>>

ip_generate_id_locks == <<Lock("ip_id"), Unlock("ip_id")>>

\* arp_resolve: the cache is read under the mutex; a request goes out after
\* the mutex has been released
arp_resolve_locks(found) ==
    <<Lock("arp"), Unlock("arp")>> \o (IF found THEN <<>> ELSE transmit_locks("ether"))

\* ip_output_device: a device that needs ARP resolves the address, and the
\* datagram goes to the device only when the address was found
ip_output_device_locks(dev, found) ==
    IF dev = "ether"
    THEN arp_resolve_locks(found) \o (IF found THEN transmit_locks(dev) ELSE <<>>)
    ELSE transmit_locks(dev)

ip_output_locks(dev, found) ==
    ip_generate_id_locks \o ip_output_device_locks(dev, found)

\* the ways an output can go
Outputs == {ip_output_locks(dev, found) : dev \in LockDevices, found \in BOOLEAN}

\* tcp_input: the segment is processed, and answered, under the TCP mutex
tcp_input_locks(out) == <<Lock("tcp")>> \o out \o <<Unlock("tcp")>>

tcp_event_locks == <<Lock("tcp"), Unlock("tcp")>>

\* udp_input and the UDP event handler hold the UDP mutex alone
udp_input_locks == <<Lock("udp"), Unlock("udp")>>

\* icmp_input answers an echo request
icmp_input_locks(out) == out

\* arp_input: the cache is updated, an entry is inserted when none was
\* updated, and the reply is sent with the mutex released
arp_input_locks(merge, reply) ==
    <<Lock("arp"), Unlock("arp")>>
        \o (IF merge THEN <<>> ELSE <<Lock("arp"), Unlock("arp")>>)
        \o (IF reply THEN transmit_locks("ether") ELSE <<>>)

\* a loopback_isr that would run the protocol handler itself
LoopbackIsrDirect == <<Lock("loopback")>> \o tcp_input_locks(<<>>) \o <<Unlock("loopback")>>

\* loopback_isr: the queue is emptied into net_input_handler, which only
\* queues the frames for the soft interrupt
loopback_isr_locks == <<Lock("loopback"), Unlock("loopback")>>

\* what the dispatch thread can be given to do
DispatchScripts ==
    {loopback_isr_locks, tcp_event_locks, udp_input_locks}
        \cup {tcp_input_locks(out) : out \in Outputs \cup {<<>>}}
        \cup {icmp_input_locks(out) : out \in Outputs}
        \cup {arp_input_locks(merge, reply) : merge \in BOOLEAN, reply \in BOOLEAN}

\* tcp_send: a wait for the window, then the segment
tcp_send_locks(sleeps, out) ==
    <<Lock("tcp")>> \o (IF sleeps THEN sched_sleep_locks("tcp") ELSE <<>>)
        \o out \o <<Unlock("tcp")>>

tcp_receive_locks(sleeps) ==
    <<Lock("tcp")>> \o (IF sleeps THEN sched_sleep_locks("tcp") ELSE <<>>)
        \o <<Unlock("tcp")>>

\* tcp_close sends a reset under the mutex
tcp_close_locks(out) == <<Lock("tcp")>> \o out \o <<Unlock("tcp")>>

\* udp_sendto releases the UDP mutex before udp_output
udp_sendto_locks(out) == <<Lock("udp"), Unlock("udp")>> \o out

udp_recvfrom_locks(sleeps) ==
    <<Lock("udp")>> \o (IF sleeps THEN sched_sleep_locks("udp") ELSE <<>>)
        \o <<Unlock("udp")>>

\* what an application thread can call
CallScripts ==
    {tcp_send_locks(sl, out) : sl \in BOOLEAN, out \in Outputs}
        \cup {tcp_receive_locks(sl) : sl \in BOOLEAN}
        \cup {tcp_close_locks(out) : out \in Outputs}
        \cup {udp_sendto_locks(out) : out \in Outputs}
        \cup {udp_recvfrom_locks(sl) : sl \in BOOLEAN}

LockQuiet == UNCHANGED <<tcpvars, udpvars, ipvars, net_protocols, ip_protocols,
                         subscribers, ip_rx, net_rv, route_rv, drvvars>>

\* the dispatch thread takes up an interrupt
DispatchBegin ==
    /\ budget > 0
    /\ script[Dispatch] = <<>>
    /\ \E sc \in DispatchScripts : script' = [script EXCEPT ![Dispatch] = sc]
    /\ budget' = budget - 1
    /\ UNCHANGED holder
    /\ LockQuiet

\* an application thread enters a call
CallBegin(t) ==
    /\ budget > 0
    /\ script[t] = <<>>
    /\ \E sc \in CallScripts : script' = [script EXCEPT ![t] = sc]
    /\ budget' = budget - 1
    /\ UNCHANGED holder
    /\ LockQuiet

\* mutex_lock returns once the mutex is free
MutexLock(t) ==
    /\ script[t] # <<>>
    /\ Head(script[t])[1] = "lock"
    /\ holder[Head(script[t])[2]] = NoThread
    /\ holder' = [holder EXCEPT ![Head(script[t])[2]] = t]
    /\ script' = [script EXCEPT ![t] = Tail(@)]
    /\ UNCHANGED budget
    /\ LockQuiet

MutexUnlock(t) ==
    /\ script[t] # <<>>
    /\ Head(script[t])[1] = "unlock"
    /\ holder' = [holder EXCEPT ![Head(script[t])[2]] = NoThread]
    /\ script' = [script EXCEPT ![t] = Tail(@)]
    /\ UNCHANGED budget
    /\ LockQuiet

LockInit == StartWith(MaxLockSteps, <<>>)

LockNext ==
    \/ DispatchBegin
    \/ \E t \in Threads : CallBegin(t)
    \/ \E t \in LockThreads : MutexLock(t)
    \/ \E t \in LockThreads : MutexUnlock(t)

LockSpec == LockInit /\ [][LockNext]_vars

\* the mutexes a thread holds
HeldBy(H, t) == {m \in Mutexes : H[m] = t}

\* t is in mutex_lock and the mutex is held by u
WaitsFor(t, u) ==
    /\ script[t] # <<>>
    /\ Head(script[t])[1] = "lock"
    /\ holder[Head(script[t])[2]] = u

\* u is reached from t along n or fewer waits
RECURSIVE WaitPath(_, _, _)
WaitPath(t, u, n) ==
    IF n = 0 THEN FALSE
    ELSE \/ WaitsFor(t, u)
         \/ \E v \in LockThreads : WaitsFor(t, v) /\ WaitPath(v, u, n - 1)

NoWaitCycle == \A t \in LockThreads : ~WaitPath(t, t, Cardinality(LockThreads))

\* the mutexes taken under the TCP mutex
UnderTcp == {"ip_id", "arp", "loopback"}

\* a mutex is taken by a thread that holds none, or that holds the TCP
\* mutex alone and takes one of the mutexes of the output path
OrderedAcquire ==
    \A t \in LockThreads : \A m \in HeldBy(holder', t) \ HeldBy(holder, t) :
        \/ HeldBy(holder, t) = {}
        \/ HeldBy(holder, t) = {"tcp"} /\ m \in UnderTcp

\* C28: no reachable state holds a cycle of threads each waiting for a mutex
\* another holds: the mutexes are never taken in conflicting orders (only
\* the TCP mutex is held while another is taken, and the other is one of the
\* output path), and no protocol mutex is taken by a thread holding the ARP
\* mutex.
C28_NoLockCycle == [] NoWaitCycle /\ [][OrderedAcquire]_vars

\* a thread holding the TCP mutex waits in its output path for the mutex of
\* the loopback device or of the ARP cache, which another thread holds
C28_Witness ==
    \E t \in LockThreads, u \in LockThreads :
        /\ t # u
        /\ WaitsFor(t, u)
        /\ holder["tcp"] = t
        /\ Head(script[t])[2] \in {"loopback", "arp"}

\* while a call is under way, some thread can make its next mutex operation
CallsCanEnd ==
    (\E t \in LockThreads : script[t] # <<>>)
        => \E t \in LockThreads : ENABLED (MutexLock(t) \/ MutexUnlock(t))

(***************************************************************************)
(* C33: for a PCB in SYN_RECEIVED or ESTABLISHED a segment that fails the  *)
(* acceptability test changes no field of the PCB and wakes no waiter, and *)
(* one pure ACK with seq = snd.nxt, ack = rcv.nxt, wnd = rcv.wnd is sent   *)
(* exactly when the segment carries no RST; an acceptable segment without  *)
(* ACK changes nothing and sends nothing.                                  *)
(***************************************************************************)
\* segments of the connection of pcb with every combination of the control
\* bits, without text and with one byte of it, that begin before the
\* window, at its start, at its end and behind it
WindowProbes(pcb) ==
    {Seg(q, pcb.snd.nxt, fl, 2, d, pcb.foreign, pcb.local) :
        q \in {Dec32(pcb.rcv.nxt, 2), Dec32(pcb.rcv.nxt, 1), pcb.rcv.nxt,
               Add32(pcb.rcv.nxt, pcb.rcv.wnd), Add32(pcb.rcv.nxt, pcb.rcv.wnd + 1)},
        fl \in SUBSET {TCP_FLG_RST, TCP_FLG_ACK, TCP_FLG_SYN, TCP_FLG_FIN},
        d \in {<<>>, Bytes(97, 1)}}

\* the segment as tcp_input hands it to tcp_segment_arrives
SegInfo(h) ==
    [seq |-> h.seq, ack |-> h.ack, len |-> SegLen(h.flg, h.data), wnd |-> h.wnd]

\* the pure ACK of the PCB
PureAck(pcb) ==
    [seq |-> pcb.snd.nxt, ack |-> pcb.rcv.nxt, flg |-> {TCP_FLG_ACK},
     wnd |-> pcb.rcv.wnd, data |-> <<>>, src |-> pcb.local, dst |-> pcb.foreign]

\* tcp_input of h leaves the PCBs, the buffers and the threads as they are
\* and sends what is in sent
OnlySends(h, sent) ==
    LET M2 == tcp_input(Machine, h, h.src.addr, h.dst.addr, Zero32)
    IN  /\ M2.pcbs = pcbs
        /\ M2.thr = thr
        /\ M2.rxlog = rxlog
        /\ M2.overrun = overrun
        /\ M2.tx = sent

UnacceptableAnswered ==
    \A i \in SynDone : \A h \in WindowProbes(pcbs[i]) :
        (tcp_pcb_select(pcbs, h.dst, h.src) = i /\ ~Acceptable(pcbs[i], SegInfo(h)))
            => OnlySends(h, IF TCP_FLG_RST \in h.flg THEN <<>>
                            ELSE <<PureAck(pcbs[i])>>)

WithoutAckDropped ==
    \A i \in SynDone : \A h \in WindowProbes(pcbs[i]) :
        (/\ tcp_pcb_select(pcbs, h.dst, h.src) = i
         /\ Acceptable(pcbs[i], SegInfo(h))
         /\ TCP_FLG_ACK \notin h.flg)
            => OnlySends(h, <<>>)

C33_UnacceptableSegment == UnacceptableAnswered /\ WithoutAckDropped

\* an established connection that has received nothing has answered a
\* segment of its peer with the pure ACK
C33_Witness ==
    \E i \in PcbIds :
        /\ pcbs[i].state = TCP_PCB_STATE_ESTABLISHED
        /\ rxlog[i] = <<>>
        /\ pcbs[i].snd.una = pcbs[i].snd.nxt
        /\ Len(tx) = 1
        /\ tx[1].flg = {TCP_FLG_ACK}
        /\ tx[1].seq = pcbs[i].snd.nxt
        /\ tx[1].ack = pcbs[i].rcv.nxt
        /\ tx[1].wnd = pcbs[i].rcv.wnd
        /\ tx[1].data = <<>>

(***************************************************************************)
(* The text that runs past the receive buffer.  struct tcp_pcb ends with   *)
(* buf, the padding and ctx, and the PCBs are the elements of one array:   *)
(* what memcpy writes past the padding lands in ctx (the condition         *)
(* variable, then interrupted, then wc) and behind it in the state of the  *)
(* next slot.  The segments are chosen so that the text ends there.        *)
(***************************************************************************)
MaxSpillSteps == 6

\* sizeof(struct sched_ctx): pthread_cond_t (48 bytes), interrupted, wc
CtxSize == 56

\* the longest text of a segment: a datagram of 65535 bytes
MaxText == 65535 - IP_HDR_SIZE_MIN - TCP_HDR_SIZE

\* bytes past the end of buf up to the end of the state of the next slot
SpillReach == PadAfterBuf + CtxSize + 4

\* with MaxText, the text that fills the buffer and runs on to SpillReach
SpillText == TCP_BUF_SIZE - MaxText + SpillReach

\* the byte at offset k of a byte string
RunByte(s, k) == BDrop(s, k)[1][1]

\* the int the four bytes from offset k on make (little endian)
IntAt(s, k) ==
    RunByte(s, k) + 256 * RunByte(s, k + 1) + 65536 * RunByte(s, k + 2)
        + 16777216 * RunByte(s, k + 3)

\* M is what tcp_input made of the segment with text data: the slot whose
\* buffer the text has just run past has its ctx overwritten, the threads
\* that sleep on it are left on what is no longer a condition variable,
\* and the state of the slot behind it is overwritten
Spill(M, data) ==
    LET hit == {i \in PcbIds : M.overrun[i] = "beyond" /\ overrun[i] # "beyond"}
    IN  IF hit = {} THEN M
        ELSE LET i == Lowest(hit)
                 off == pcbs[i].rcv.wnd + PadAfterBuf
                 M1 == [M EXCEPT !.pcbs[i].ctx = [interrupted |-> IntAt(data, off + 48),
                                                  wc |-> IntAt(data, off + 52)],
                                 !.thr = Orphan(M.thr, i)]
             IN  IF i + 1 \in PcbIds
                 THEN [M1 EXCEPT !.pcbs[i + 1].state = IntAt(data, off + CtxSize)]
                 ELSE M1

\* text that fits the buffer and its padding, or ends with the state of
\* the next slot
SpillSegs(pcb) ==
    {Seg(pcb.rcv.nxt, pcb.snd.nxt, {TCP_FLG_ACK, TCP_FLG_PSH}, 2, Bytes(120, n),
         pcb.foreign, pcb.local) :
        n \in {k \in {MaxText, SpillText} :
                  k <= pcb.rcv.wnd + PadAfterBuf \/ k = pcb.rcv.wnd + SpillReach}}

\* the SYN of the peer and of a second host
SpillSyns ==
    {Seg(irs, Zero32, {TCP_FLG_SYN}, 8192, <<>>, src, Endpoint(a, 7)) :
        irs \in IrsValues, src \in {Peer, Stranger}, a \in HostAddrs}

SpillInputs ==
    SpillSyns \cup UNION {SpillSegs(pcbs[i]) : i \in SynDone}

\* the dispatch thread runs tcp_input on a segment
SpillArrival ==
    /\ Intact
    /\ tcp_mutex = NoThread
    /\ budget > 0
    /\ \E h \in SpillInputs, iss \in IssValues :
          Commit(Spill(tcp_input(Machine, h, h.src.addr, h.dst.addr, iss), h.data),
                 NoThread)
    /\ budget' = budget - 1

SpillInit == Start(MaxSpillSteps)

SpillNext ==
    \/ \E t \in Threads : CallOpen(t)
    \/ \E t \in Threads : CallReceive(t)
    \/ \E t \in Threads : Resume(t)
    \/ SpillArrival

SpillSpec == SpillInit /\ [][SpillNext]_vars

(***************************************************************************)
(* C34: every TCP PCB is always FREE, CLOSED, LISTEN, SYN_RECEIVED or      *)
(* ESTABLISHED; the state changes only from FREE over CLOSED to LISTEN by  *)
(* a passive open, from LISTEN to SYN_RECEIVED and from SYN_RECEIVED to    *)
(* ESTABLISHED by a segment, and to CLOSED or FREE by a user command; no   *)
(* segment moves a PCB out of ESTABLISHED, or out of SYN_RECEIVED to       *)
(* another state than ESTABLISHED.                                         *)
(***************************************************************************)
KnownStates ==
    {TCP_PCB_STATE_FREE, TCP_PCB_STATE_CLOSED, TCP_PCB_STATE_LISTEN,
     TCP_PCB_STATE_SYN_RECEIVED, TCP_PCB_STATE_ESTABLISHED}

StatesKnown == \A i \in PcbIds : pcbs[i].state \in KnownStates

\* the step was made by the dispatch thread in tcp_input: no call returned,
\* no thread went to sleep or left its sleep
BySegment ==
    /\ rv' = NoReturn
    /\ \A t \in Threads : thr'[t].pc = thr[t].pc /\ thr'[t].orphan = thr[t].orphan

\* the changes of state a step may make
AllowedMove(a, b) ==
    \/ a = TCP_PCB_STATE_LISTEN /\ b = TCP_PCB_STATE_SYN_RECEIVED /\ BySegment
    \/ a = TCP_PCB_STATE_SYN_RECEIVED /\ b = TCP_PCB_STATE_ESTABLISHED /\ BySegment
    \/ a = TCP_PCB_STATE_FREE /\ b = TCP_PCB_STATE_LISTEN /\ ~BySegment
    \/ b \in {TCP_PCB_STATE_CLOSED, TCP_PCB_STATE_FREE} /\ ~BySegment

OnlyAllowedMoves ==
    \A i \in PcbIds :
        pcbs'[i].state # pcbs[i].state => AllowedMove(pcbs[i].state, pcbs'[i].state)

C34_PcbStates == [] StatesKnown /\ [][OnlyAllowedMoves]_vars

\* while no text has run past a receive buffer the states and their changes
\* are the stated ones
KnownWhileIntact == Intact => StatesKnown

MovesWhileIntact == [][Intact' => OnlyAllowedMoves]_vars

(***************************************************************************)
(* C35: the bytes buffered for tcp_receive are the peer's stream from      *)
(* irs + 1 on without gaps and without bytes stored twice: rcv.nxt is      *)
(* irs + 1 + the number of payload bytes buffered so far, also after an    *)
(* acceptable segment that begins ahead of rcv.nxt or before it, or that   *)
(* carries FIN.                                                            *)
(***************************************************************************)
\* rcv.nxt of slot i stands where the buffered bytes end
NextAfterBuffered(P, L, i) == P[i].rcv.nxt = Add32(P[i].irs, 1 + BLen(L[i]))

C35_StreamInOrder ==
    \A i \in PcbIds :
        (pcbs[i].state = TCP_PCB_STATE_ESTABLISHED /\ overrun[i] = "none")
            => NextAfterBuffered(pcbs, rxlog, i)

\* text that begins at rcv.nxt, fits the window and comes without SYN and
\* FIN keeps rcv.nxt at the end of what is buffered
InOrderKeeps ==
    \A i \in PcbIds :
        (pcbs[i].state = TCP_PCB_STATE_ESTABLISHED /\ NextAfterBuffered(pcbs, rxlog, i))
            => \A h \in TextSegs(pcbs[i]) :
                   (h.seq = pcbs[i].rcv.nxt /\ BLen(h.data) <= pcbs[i].rcv.wnd)
                       => LET M2 == tcp_input(Machine, h, h.src.addr, h.dst.addr, Zero32)
                          IN  NextAfterBuffered(M2.pcbs, M2.rxlog, i)

(***************************************************************************)
(* Connections whose sequence numbers lie at the end of the number space.  *)
(* The peer chooses irs; every segment it sends after its SYN begins at    *)
(* rcv.nxt and acknowledges snd.nxt.                                       *)
(***************************************************************************)
MaxWrapSteps == 5

\* initial sequence numbers of the peer: in the middle of the number space,
\* with rcv.nxt + rcv.wnd = 2^32 - 1, = 2^32, and with rcv.nxt = 2^32 - 1
WrapIrs == {U32(0, 1000), U32(65534, 65535), U32(65535, 0), U32(65535, 65534)}

WrapSyns ==
    {Seg(irs, Zero32, {TCP_FLG_SYN}, 8192, <<>>, Peer, Endpoint(a, 7)) :
        irs \in WrapIrs, a \in HostAddrs}

\* in-order segments of the connection, without text and with it
AtNextSegs(pcb) ==
    {Seg(pcb.rcv.nxt, pcb.snd.nxt, {TCP_FLG_ACK}, 8192, d, pcb.foreign, pcb.local) :
        d \in {<<>>, Bytes(97, 1), <<Run(97, 1), Run(98, 1)>>}}

WrapInputs ==
    IF SynDone = {} THEN WrapSyns ELSE UNION {AtNextSegs(pcbs[i]) : i \in SynDone}

WrapArrival == Arrival(WrapInputs)

WrapInit == Start(MaxWrapSteps)

WrapNext ==
    \/ \E t \in Threads : CallOpen(t)
    \/ \E t \in Threads : CallReceive(t)
    \/ \E t \in Threads : Resume(t)
    \/ WrapArrival

WrapSpec == WrapInit /\ [][WrapNext]_vars

(***************************************************************************)
(* C36: the sequence-space tests are tests modulo 2^32: for every rcv.nxt, *)
(* also within rcv.wnd of 2^32, a segment with seq = rcv.nxt is acceptable *)
(* when rcv.wnd > 0 (or when it has no text and rcv.wnd = 0), and the      *)
(* handshake ACK with ack = iss + 1 moves SYN_RECEIVED to ESTABLISHED.     *)
(***************************************************************************)
\* the step is the arrival of a segment
ArrivalStep ==
    /\ budget' = budget - 1
    /\ rv' = NoReturn
    /\ \A t \in Threads : thr'[t].pc = thr[t].pc

\* a segment at rcv.nxt completes the handshake, and is taken: its text is
\* buffered, and without text nothing is answered
AtNextTaken ==
    \A i \in SynDone :
        ArrivalStep =>
            /\ pcbs'[i].state = TCP_PCB_STATE_ESTABLISHED
            /\ rxlog'[i] # rxlog[i] \/ tx' = <<>>

C36_SequenceSpace == [][AtNextTaken]_vars

\* the test itself, for the segments at rcv.nxt
AtNextAcceptable ==
    \A i \in SynDone : \A h \in AtNextSegs(pcbs[i]) :
        (pcbs[i].rcv.wnd > 0 \/ (BLen(h.data) = 0 /\ pcbs[i].rcv.wnd = 0))
            => Acceptable(pcbs[i], SegInfo(h))

\* where rcv.nxt + rcv.wnd does not pass 2^32 the segment at rcv.nxt is
\* acceptable
AcceptableBelowWrap ==
    \A i \in SynDone : \A h \in AtNextSegs(pcbs[i]) :
        (/\ pcbs[i].rcv.wnd > 0
         /\ Lt32(pcbs[i].rcv.nxt, Add32(pcbs[i].rcv.nxt, pcbs[i].rcv.wnd)))
            => Acceptable(pcbs[i], SegInfo(h))

(***************************************************************************)
(* C37: a PCB that has recorded its foreign endpoint (SYN_RECEIVED or      *)
(* ESTABLISHED) is not modified by a segment whose source address or port  *)
(* differs from that endpoint, also when the segment's destination is the  *)
(* local endpoint of the PCB; the segment goes to a LISTEN PCB with        *)
(* wildcard foreign on that local endpoint if there is one, and otherwise  *)
(* falls under the rules for segments without a PCB.                       *)
(***************************************************************************)
\* what a segment arrival sends goes to the source of the segment; a PCB
\* whose foreign endpoint is another one is left as it is
OtherSourceKeeps ==
    \A i \in SynDone :
        (ArrivalStep /\ tx' # <<>> /\ tx'[1].dst # pcbs[i].foreign)
            => pcbs'[i] = pcbs[i]

C37_ForeignFrame == [][OtherSourceKeeps]_vars

\* segments to the local endpoint of pcb from another source: another
\* port, another host
OtherSources(pcb) ==
    {Seg(q, a, fl, 2, d, src, pcb.local) :
        q \in {pcb.rcv.nxt}, a \in {pcb.snd.nxt},
        fl \in {{TCP_FLG_SYN}, {TCP_FLG_ACK}, {TCP_FLG_RST}, {TCP_FLG_ACK, TCP_FLG_PSH}},
        d \in {<<>>, Bytes(97, 1)},
        src \in {Endpoint(pcb.foreign.addr, pcb.foreign.port + 1), Stranger, Peer}
                    \ {pcb.foreign}}

\* the LISTEN slots with wildcard foreign that match the local endpoint
Listeners(local) == {j \in LocalMatch(pcbs, local) : ListenAny(pcbs, j)}

\* tcp_pcb_select does not find the PCB for a segment of another source,
\* tcp_input leaves the PCB as it is, and where no PCB has recorded the
\* source of the segment it is a listener that takes it, or none
SelectBySource ==
    \A i \in SynDone : \A h \in OtherSources(pcbs[i]) :
        LET j == tcp_pcb_select(pcbs, h.dst, h.src)
            M2 == tcp_input(Machine, h, h.src.addr, h.dst.addr, Zero32)
        IN  /\ j # i
            /\ M2.pcbs[i] = pcbs[i]
            /\ (\A k \in LocalMatch(pcbs, h.dst) : ~ForeignMatch(pcbs, k, h.src))
                   => /\ Listeners(h.dst) # {} => j \in Listeners(h.dst)
                      /\ Listeners(h.dst) = {}
                             => /\ j = NULL
                                /\ M2 = SegNoPcb(Machine, SegInfo(h), h.flg, h.dst, h.src)

(***************************************************************************)
(* C31: no UDP PCB is leaked when udp_close meets a cancellation: every    *)
(* PCB that enters CLOSING eventually is FREE, also when an EVENT          *)
(* interrupt wakes the thread sleeping in udp_recvfrom while udp_close     *)
(* runs and the sleeper returns the interrupted error without having seen  *)
(* CLOSING.                                                                *)
(***************************************************************************)
C31_ClosingFreed ==
    \A i \in UdpPcbIds :
        (udp_pcbs[i].state = UDP_PCB_STATE_CLOSING) ~> (udp_pcbs[i].state = UDP_PCB_STATE_FREE)

\* a PCB is CLOSING only while a thread is inside pthread_cond_destroy in
\* udp_pcb_release: no call returns and leaves the PCB CLOSING
ClosingOnlyInDestroy ==
    \A i \in UdpPcbIds :
        udp_pcbs[i].state = UDP_PCB_STATE_CLOSING
            => \E t \in Threads : uthr[t].pc = "destroy" /\ uthr[t].id = i /\ udp_mutex = t

\* the sleeper that the EVENT interrupt has woken returns the error with
\* the PCB OPEN or, closed meanwhile, FREE
InterruptedLeavesNoClosing ==
    (urv.op = "recvfrom" /\ urv.ret = ERROR /\ urv.errno = EINTR)
        => udp_pcbs[urv.id].state # UDP_PCB_STATE_CLOSING

(***************************************************************************)
(* The ARP table when it is full or nearly full.  The table is what 32 or  *)
(* fewer next hops leave behind: entry c holds the host 520 + c, RESOLVED  *)
(* or still INCOMPLETE; old is the entry stamped first, tie one stamped at *)
(* the same time of day, and the entries of free were never used.  From    *)
(* there the threads call arp_resolve and the dispatch thread runs         *)
(* arp_input as in ArpSpec.                                                *)
(***************************************************************************)
MaxCacheSteps == 2

FreeSets == {{}, {7}, {2, 20}}

CacheTable(old, tie, free) ==
    [c \in CacheIds |->
        IF c \in free THEN FreeCache
        ELSE [state |-> IF c % 2 = 0 THEN ARP_CACHE_STATE_RESOLVED
                        ELSE ARP_CACHE_STATE_INCOMPLETE,
              pa |-> 520 + c,
              ha |-> IF c % 2 = 0 THEN 10 + c ELSE ETHER_ADDR_ANY,
              timestamp |-> IF c \in {old, tie} THEN 1 ELSE 2 + ((c * 5) % 7)]]

CacheInit ==
    \E old \in CacheIds : \E tie \in {old, ARP_CACHE_SIZE - 1} : \E free \in FreeSets :
        /\ StartFrom(MaxCacheSteps, OnLinkRoutes, CacheTable(old, tie, free), 9, IP_ID_FIRST)
        /\ DrvStart(<<>>)
        /\ StackStart

CacheSpec == CacheInit /\ [][ArpNext]_vars

FreeEntries(C) == {c \in CacheIds : C[c].state = ARP_CACHE_STATE_FREE}

Oldest(C) == {c \in CacheIds : \A d \in CacheIds : C[c].timestamp <= C[d].timestamp}

\* what arp_cache_alloc would return in this state: an entry always; a FREE
\* one with the table as it was if there is a FREE one; else one of the
\* oldest, cleared, with the other entries as they were
AllocReturns ==
    LET a == arp_cache_alloc(NetMachine)
        c == a.ret
    IN  /\ c \in CacheIds
        /\ a.N.caches[c].state = ARP_CACHE_STATE_FREE
        /\ a.N.caches[c].pa = 0
        /\ a.N.caches[c].ha = ETHER_ADDR_ANY
        /\ \A d \in CacheIds \ {c} : a.N.caches[d] = caches[d]
        /\ FreeEntries(caches) # {} => c \in FreeEntries(caches) /\ a.N.caches = caches
        /\ FreeEntries(caches) = {} => c \in Oldest(caches)

\* the step is an arp_resolve that found no entry for pa and made one, or
\* the end of an arp_input that inserts the sender
Allocates ==
    \/ /\ arp_rv'.called
       /\ arp_cache_select(caches, arp_rv'.pa) = NULL
       /\ arp_rv'.ret = ARP_RESOLVE_INCOMPLETE
    \/ /\ arp_rx # NoMessage
       /\ arp_rx' = NoMessage
       /\ arp_rx.marge = 0
       /\ arp_rx.tpa = EtherIface.unicast

\* the entries whose content the step changed
Changed == {c \in CacheIds : caches'[c] # caches[c]}

\* a step that allocates changes one entry, a FREE one if there was one and
\* else one of the oldest, and stamps it with the time of the step; the
\* entry made by arp_resolve has the zero hardware address of a cleared
\* entry
AllocActs ==
    Allocates =>
        \E c \in CacheIds :
            /\ Changed = {c}
            /\ FreeEntries(caches) # {} => c \in FreeEntries(caches)
            /\ FreeEntries(caches) = {} => c \in Oldest(caches)
            /\ caches'[c].state # ARP_CACHE_STATE_FREE
            /\ caches'[c].timestamp = ticks
            /\ arp_rv'.called => /\ caches'[c].pa = arp_rv'.pa
                                 /\ caches'[c].ha = ETHER_ADDR_ANY

\* a timestamp is the time of the entry's creation or of its last update
\* by a message: the only steps that change one are those, and arp_resolve
\* finding its entry leaves the table as it was
StampMeans ==
    /\ \A c \in CacheIds :
          caches'[c].timestamp # caches[c].timestamp
              => /\ caches'[c].timestamp = ticks
                 /\ caches'[c].state # ARP_CACHE_STATE_FREE
                 /\ \/ Allocates
                    \/ arp_rx' # NoMessage /\ arp_rx'.marge = 1 /\ caches[c].pa = arp_rx'.spa
    /\ arp_rv'.called /\ arp_cache_select(caches, arp_rv'.pa) # NULL => caches' = caches

(***************************************************************************)
(* C39: ARP cache allocation never fails and never evicts while a FREE     *)
(* entry exists: with a FREE entry, a FREE entry is returned and the other *)
(* entries are unchanged; with all 32 entries in use, an entry with the    *)
(* oldest timestamp, and only that one, is cleared (FREE, protocol and     *)
(* hardware address zero) and returned; a timestamp is the time the entry  *)
(* was made or last updated by an ARP message.                             *)
(***************************************************************************)
C39_CacheAlloc == [] AllocReturns /\ [][AllocActs /\ StampMeans]_vars

\* an arp_resolve has taken over the oldest entry of a full table
C39_Witness ==
    /\ arp_rv.called
    /\ arp_rv.ret = ARP_RESOLVE_INCOMPLETE
    /\ FreeEntries(caches) = {}
    /\ \E c \in CacheIds : /\ caches[c].pa = arp_rv.pa
                           /\ caches[c].timestamp = ticks - 1
                           /\ caches[c].state = ARP_CACHE_STATE_INCOMPLETE
    /\ \A c \in CacheIds : caches[c].timestamp > 1

(***************************************************************************)
(* IP identifications: threads call ip_output at the same time.  A call    *)
(* that passes the checks goes through ip_generate_id, which takes the     *)
(* function's own mutex, loads id, stores id + 1 and gives the mutex back, *)
(* and then hands the datagram to ip_output_core.  The run starts when the *)
(* process does, or late in the first cycle of the 16 bit counter.         *)
(***************************************************************************)
MaxIdSteps == 4

\* the next id and the ids returned so far (of a long run the last one)
IdStarts == {[id |-> IP_ID_FIRST, log |-> <<>>], [id |-> 65534, log |-> <<65533>>]}

\* the arguments of the calls: to the loopback address, to the limited
\* broadcast and to a network without route, from no address, from the
\* loopback and from the Ethernet interface, short and too long
IpCalls ==
    [protocol : {IP_PROTOCOL_UDP},
     len : {1, 65535 - IP_HDR_SIZE_MIN + 1},
     src : {IP_ADDR_ANY, LoopbackIface.unicast, EtherIface.unicast},
     dst : {LoopbackIface.unicast, IP_ADDR_BROADCAST, 49185}]

\* ip_output up to the call of ip_generate_id: does the call get there
ip_output_checks(c) ==
    LET route == ip_route_lookup(c.dst)
    IN  /\ ~(c.src = IP_ADDR_ANY /\ c.dst = IP_ADDR_BROADCAST)
        /\ route # NULL_ROUTE
        /\ ~(c.src # IP_ADDR_ANY /\ c.src # route.iface.unicast)
        /\ ~(route.iface.dev.mtu < IP_HDR_SIZE_MIN + c.len)

\* ip_output from the return of ip_generate_id on
ip_output_send(N, c, id, drv) ==
    LET route == ip_route_lookup(c.dst)
        iface == route.iface
        nexthop == IF route.nexthop # IP_ADDR_ANY THEN route.nexthop ELSE c.dst
        r == ip_output_core(N, iface, c.protocol, <<97>>, c.len, iface.unicast,
                            c.dst, nexthop, id, drv)
    IN  IF r.ret = -1 THEN Result(r.N, -1) ELSE Result(r.N, c.len)

\* a thread inside ip_output: where it is, its arguments, and ret of
\* ip_generate_id
IdThread(pc, c, ret) == [pc |-> pc, call |-> c, ret |-> ret]

IdReturn(t, ret) ==
    [t |-> t, op |-> "ip_output", id |-> -1, ret |-> ret, errno |-> 0, out |-> <<>>]

\* A faulty ip_generate_id that does not wait for its mutex.
IdMutexNotTaken == TRUE

\* mutex_lock(&mutex) of ip_generate_id returns when no thread holds it
IdMutexFree == holder["ip_id"] = NoThread

IdQuiet ==
    UNCHANGED <<tcpvars, udp_pcbs, udp_mutex, routes, caches, ticks, arp_rx, arp_rv,
                net_protocols, ip_protocols, subscribers, ip_rx, net_rv, route_rv,
                script, lo_queue, pending, queues, intr_pc, lo_sent, net_in, handled>>

\* thread t calls ip_output; a call that fails a check returns -1
IdCall(t) ==
    /\ budget > 0
    /\ uthr[t].pc = "idle"
    /\ \E c \in IpCalls :
          IF ip_output_checks(c)
          THEN /\ uthr' = [uthr EXCEPT ![t] = IdThread("generate", c, 0)]
               /\ urv' = NoReturn
          ELSE /\ urv' = IdReturn(t, -1)
               /\ UNCHANGED uthr
    /\ frames' = <<>>
    /\ budget' = budget - 1
    /\ UNCHANGED <<ip_id, id_log, holder>>
    /\ IdQuiet

\* mutex_lock(&mutex)
IdLock(t) ==
    /\ uthr[t].pc = "generate"
    /\ IdMutexFree
    /\ holder' = [holder EXCEPT !["ip_id"] = t]
    /\ uthr' = [uthr EXCEPT ![t].pc = "locked"]
    /\ urv' = NoReturn
    /\ frames' = <<>>
    /\ UNCHANGED <<ip_id, id_log, budget>>
    /\ IdQuiet

\* ret = id++: the load
IdLoad(t) ==
    /\ uthr[t].pc = "locked"
    /\ uthr' = [uthr EXCEPT ![t].pc = "loaded", ![t].ret = ip_id]
    /\ urv' = NoReturn
    /\ frames' = <<>>
    /\ UNCHANGED <<ip_id, id_log, holder, budget>>
    /\ IdQuiet

\* ret = id++: the store, to a uint16_t
IdStore(t) ==
    /\ uthr[t].pc = "loaded"
    /\ ip_id' = (uthr[t].ret + 1) % Pow16
    /\ uthr' = [uthr EXCEPT ![t].pc = "stored"]
    /\ urv' = NoReturn
    /\ frames' = <<>>
    /\ UNCHANGED <<id_log, holder, budget>>
    /\ IdQuiet

\* mutex_unlock(&mutex); return ret
IdUnlock(t) ==
    /\ uthr[t].pc = "stored"
    /\ holder' = [holder EXCEPT !["ip_id"] = NoThread]
    /\ id_log' = Append(id_log, uthr[t].ret)
    /\ uthr' = [uthr EXCEPT ![t].pc = "core"]
    /\ urv' = NoReturn
    /\ frames' = <<>>
    /\ UNCHANGED <<ip_id, budget>>
    /\ IdQuiet

\* ip_output_core with the id, and the return of ip_output
IdCore(t) ==
    /\ uthr[t].pc = "core"
    /\ \E drv \in DrvReturns :
          LET r == ip_output_send(NetMachine, uthr[t].call, uthr[t].ret, drv)
          IN  /\ frames' = r.N.frames
              /\ urv' = IdReturn(t, r.ret)
    /\ uthr' = [uthr EXCEPT ![t] = IdleThread]
    /\ UNCHANGED <<ip_id, id_log, holder, budget>>
    /\ IdQuiet

IdInit ==
    \E s \in IdStarts :
        /\ StartFrom(MaxIdSteps, OnLinkRoutes, [c \in CacheIds |-> FreeCache], 1, s.id)
        /\ DrvStart(s.log)
        /\ StackStart

IdNext ==
    \/ \E t \in Threads : IdCall(t)
    \/ \E t \in Threads : IdLock(t)
    \/ \E t \in Threads : IdLoad(t)
    \/ \E t \in Threads : IdStore(t)
    \/ \E t \in Threads : IdUnlock(t)
    \/ \E t \in Threads : IdCore(t)

IdSpec == IdInit /\ [][IdNext]_vars

\* each id returned is the one before plus one, 0 after 65535
IdsInOrder ==
    \A k \in 1 .. Len(id_log) - 1 : id_log[k + 1] = (id_log[k] + 1) % Pow16

\* no id was returned twice
IdsOnce ==
    \A j \in 1 .. Len(id_log) : \A k \in 1 .. Len(id_log) : j < k => id_log[j] # id_log[k]

\* two calls that are in ip_output_core at the same time have different ids
IdsApart ==
    \A t \in Threads : \A u \in Threads \ {t} :
        uthr[t].pc = "core" /\ uthr[u].pc = "core" => uthr[t].ret # uthr[u].ret

\* the first id a process returns is 128
IdsFrom128 == id_log = <<>> /\ id_log' # <<>> => id_log' = <<IP_ID_FIRST>>

\* an id is returned only to a call that passed the checks of ip_output,
\* and a call that fails one takes no id
IdsToValid ==
    /\ id_log' # id_log
          => \E t \in Threads : /\ uthr'[t].pc = "core"
                                /\ ip_output_checks(uthr'[t].call)
                                /\ id_log' = Append(id_log, uthr'[t].ret)
    /\ urv'.op = "ip_output" /\ uthr' = uthr => ip_id' = ip_id /\ id_log' = id_log

\* the datagram handed to the device carries the id of its call
IdsInDatagram ==
    \A t \in Threads :
        uthr[t].pc = "core" /\ uthr'[t].pc = "idle" /\ frames' # <<>>
            => frames'[1].data.id = uthr[t].ret

(***************************************************************************)
(* C40: the IP identifications handed to the ip_output calls that pass     *)
(* validation are, over all threads, 128, 129, 130 and so on, each once    *)
(* and in that order, 0 following 65535; two calls running at the same     *)
(* time never get the same id.                                             *)
(***************************************************************************)
C40_IpIds ==
    /\ [] (IdsInOrder /\ IdsOnce /\ IdsApart)
    /\ [][IdsFrom128 /\ IdsToValid /\ IdsInDatagram]_vars

\* both threads passed the checks when 65535 was next; one has got 65535
\* and the other 0, and both are about to send
C40_Witness ==
    /\ Len(id_log) >= 2
    /\ id_log[Len(id_log) - 1] = 65535
    /\ id_log[Len(id_log)] = 0
    /\ \A t \in Threads : uthr[t].pc = "core"
    /\ ip_id = 1

(***************************************************************************)
(* Drivers and the net core (driver/loopback.c, net.c, intr.c).            *)
(* Application threads transmit on the loopback device; the dispatch       *)
(* thread takes one pending signal at a time in sigwait and runs its       *)
(* handler: the ISR of the loopback device, the ISR of the Ethernet        *)
(* device, or net_softirq_handler.  The soft interrupt is a standard       *)
(* signal, pending once however often it is raised; the IRQs are           *)
(* real-time signals, which queue.                                         *)
(***************************************************************************)
MaxDrvSteps == 3

MaxLoSteps == 2

LOOPBACK_QUEUE_LIMIT == 16

\* an ethertype no protocol is registered for (IPv6)
ETHER_TYPE_IPV6 == 34525

PktTypes == {NET_PROTOCOL_TYPE_IP, NET_PROTOCOL_TYPE_ARP, ETHER_TYPE_IPV6}

PktData == {97}

\* struct loopback_queue_entry
Pkt(type, data) == [type |-> type, data |-> data]

\* the i-th packet of the queue the run starts with
StartPkt(i) ==
    Pkt(IF i % 3 = 0 THEN ETHER_TYPE_IPV6
        ELSE IF i % 3 = 1 THEN NET_PROTOCOL_TYPE_IP ELSE NET_PROTOCOL_TYPE_ARP,
        97)

StartQueues == {0, LOOPBACK_QUEUE_LIMIT - 1}

\* the queues, the pending signals and the record of the calls
DrvMachine ==
    [queues |-> queues, pending |-> pending, net_in |-> net_in, handled |-> handled]

Registered(type) == \E k \in 1 .. Len(net_protocols) : net_protocols[k] = type

\* net_input_handler: the payload and its device go to the queue of the
\* protocol of that type and the soft interrupt is raised; without such a
\* protocol nothing is done
net_input_handler(D, type, data, dev) ==
    LET D1 == [D EXCEPT !.net_in = Append(@, [type |-> type, data |-> data, dev |-> dev])]
    IN  IF Registered(type)
        THEN [D1 EXCEPT !.queues[type] = Append(@, [dev |-> dev, data |-> data]),
                        !.pending[SOFTIRQ] = 1]
        ELSE D1

\* the loop of loopback_isr: every entry, the oldest first, goes to
\* net_input_handler
loopback_isr(D, q) ==
    LET popped[i \in 0 .. Len(q)] ==
            IF i = 0 THEN D
            ELSE net_input_handler(popped[i - 1], q[i].type, q[i].data, LoopbackDev.name)
    IN  popped[Len(q)]

\* the loop of ether_tap_isr over the frames that can be read
ether_tap_isr(D, fs) ==
    LET read[i \in 0 .. Len(fs)] ==
            IF i = 0 THEN D
            ELSE net_input_handler(read[i - 1], fs[i].type, fs[i].data, EtherDev.name)
    IN  read[Len(fs)]

\* the handler of the protocol is called with the entry
Handle(D, type, e) ==
    [D EXCEPT !.handled = Append(@, [type |-> type, data |-> e.data, dev |-> e.dev])]

\* A faulty inner loop that takes one entry of the queue and goes on to
\* the next protocol.
DrainOneEntry(D, type) ==
    IF D.queues[type] = <<>> THEN D
    ELSE Handle([D EXCEPT !.queues[type] = Tail(@)], type, Head(D.queues[type]))

\* the inner loop of net_softirq_handler: the queue of one protocol is
\* emptied, the oldest entry first
DrainQueue(D, type) ==
    LET q == D.queues[type]
        popped[i \in 0 .. Len(q)] ==
            IF i = 0 THEN D
            ELSE Handle([popped[i - 1] EXCEPT !.queues[type] = Tail(@)], type, q[i])
    IN  popped[Len(q)]

\* net_softirq_handler: the protocols in the order of the list
RECURSIVE net_softirq_handler(_, _)
net_softirq_handler(D, protos) ==
    IF protos = <<>> THEN D
    ELSE net_softirq_handler(DrainQueue(D, Head(protos)), Tail(protos))

\* A faulty check that lets the queue grow to one entry more.
LoopbackQueueFullLate(q) == Len(q) > LOOPBACK_QUEUE_LIMIT

\* PRIV(dev)->queue.num >= LOOPBACK_QUEUE_LIMIT
loopback_queue_full(q) == Len(q) >= LOOPBACK_QUEUE_LIMIT

DrvReturn(t, ret) ==
    [t |-> t, op |-> "transmit", id |-> -1, ret |-> ret, errno |-> 0, out |-> <<>>]

DrvQuiet ==
    UNCHANGED <<tcpvars, udp_pcbs, udp_mutex, ipvars, net_protocols, ip_protocols,
                subscribers, ip_rx, net_rv, route_rv, lockvars, id_log>>

DrvCommit(D) ==
    /\ queues' = D.queues
    /\ pending' = D.pending
    /\ net_in' = D.net_in
    /\ handled' = D.handled

\* thread t calls loopback_transmit and runs to mutex_unlock: with the
\* queue full it returns -1, else the packet is in the queue
LoopbackTransmit(t) ==
    /\ budget > 0
    /\ uthr[t].pc = "idle"
    /\ \E type \in PktTypes, data \in PktData :
          IF loopback_queue_full(lo_queue)
          THEN /\ urv' = DrvReturn(t, -1)
               /\ UNCHANGED <<uthr, lo_queue, lo_sent>>
          ELSE /\ lo_queue' = Append(lo_queue, Pkt(type, data))
               /\ lo_sent' = Append(lo_sent, Pkt(type, data))
               /\ uthr' = [uthr EXCEPT ![t].pc = "raise"]
               /\ urv' = NoReturn
    /\ budget' = budget - 1
    /\ UNCHANGED <<pending, queues, net_in, handled, intr_pc>>
    /\ DrvQuiet

\* intr_raise_irq(PRIV(dev)->irq); return 0
LoopbackRaise(t) ==
    /\ uthr[t].pc = "raise"
    /\ pending' = [pending EXCEPT ![LOOPBACK_IRQ] = @ + 1]
    /\ uthr' = [uthr EXCEPT ![t].pc = "idle"]
    /\ urv' = DrvReturn(t, 0)
    /\ UNCHANGED <<lo_queue, lo_sent, queues, net_in, handled, intr_pc, budget>>
    /\ DrvQuiet

\* frames have arrived on the Ethernet device, which raises its IRQ
EtherRaise ==
    /\ budget > 0
    /\ pending' = [pending EXCEPT ![ETHER_IRQ] = @ + 1]
    /\ urv' = NoReturn
    /\ budget' = budget - 1
    /\ UNCHANGED <<uthr, lo_queue, lo_sent, queues, net_in, handled, intr_pc>>
    /\ DrvQuiet

\* sigwait returns one of the pending signals
Sigwait ==
    /\ intr_pc = "wait"
    /\ \E s \in Signals :
          /\ pending[s] > 0
          /\ pending' = [pending EXCEPT ![s] = @ - 1]
          /\ intr_pc' = s
    /\ urv' = NoReturn
    /\ UNCHANGED <<uthr, lo_queue, lo_sent, queues, net_in, handled, budget>>
    /\ DrvQuiet

\* the dispatch thread runs loopback_isr
LoopbackIsr ==
    /\ intr_pc = LOOPBACK_IRQ
    /\ DrvCommit(loopback_isr(DrvMachine, lo_queue))
    /\ lo_queue' = <<>>
    /\ intr_pc' = "wait"
    /\ urv' = NoReturn
    /\ UNCHANGED <<uthr, lo_sent, budget>>
    /\ DrvQuiet

\* the dispatch thread runs ether_tap_isr, which reads the frames there are
EtherIsr ==
    /\ intr_pc = ETHER_IRQ
    /\ \E n \in 0 .. 2 : \E fs \in [1 .. n -> {Pkt(type, 99) : type \in PktTypes}] :
          DrvCommit(ether_tap_isr(DrvMachine, fs))
    /\ intr_pc' = "wait"
    /\ urv' = NoReturn
    /\ UNCHANGED <<uthr, lo_queue, lo_sent, budget>>
    /\ DrvQuiet

\* the dispatch thread runs net_softirq_handler
Softirq ==
    /\ intr_pc = SOFTIRQ
    /\ DrvCommit(net_softirq_handler(DrvMachine, net_protocols))
    /\ intr_pc' = "wait"
    /\ urv' = NoReturn
    /\ UNCHANGED <<uthr, lo_queue, lo_sent, budget>>
    /\ DrvQuiet

\* the threads have transmitted k packets since the dispatch thread last
\* ran, and n steps of the environment are to come
DrvStartAt(n, k) ==
    /\ StartFrom(n, OnLinkRoutes, [c \in CacheIds |-> FreeCache], 1, IP_ID_FIRST)
    /\ StackStart
    /\ lo_queue = [i \in 1 .. k |-> StartPkt(i)]
    /\ lo_sent = [i \in 1 .. k |-> StartPkt(i)]
    /\ pending = [s \in Signals |-> IF s = LOOPBACK_IRQ THEN k ELSE 0]
    /\ queues = [p \in EtherTypes |-> <<>>]
    /\ intr_pc = "wait"
    /\ net_in = <<>>
    /\ handled = <<>>
    /\ id_log = <<>>

DrvInit == DrvStartAt(MaxDrvSteps, 0)

DrvNext ==
    \/ \E t \in Threads : LoopbackTransmit(t)
    \/ \E t \in Threads : LoopbackRaise(t)
    \/ EtherRaise
    \/ Sigwait
    \/ LoopbackIsr
    \/ EtherIsr
    \/ Softirq

DrvSpec == DrvInit /\ [][DrvNext]_vars

\* a thread that has queued its packet goes on to raise the IRQ, and the
\* dispatch thread, when a signal is pending, returns from sigwait and runs
\* the handler to its end
DrvFair ==
    /\ \A t \in Threads : WF_vars(LoopbackRaise(t))
    /\ WF_vars(Sigwait)
    /\ WF_vars(LoopbackIsr)
    /\ WF_vars(EtherIsr)
    /\ WF_vars(Softirq)

DrvFairSpec == DrvSpec /\ DrvFair

\* the loopback device alone, its queue empty or one entry short of full
LoInit == \E k \in StartQueues : DrvStartAt(MaxLoSteps, k)

LoNext ==
    \/ \E t \in Threads : LoopbackTransmit(t)
    \/ \E t \in Threads : LoopbackRaise(t)
    \/ Sigwait
    \/ LoopbackIsr
    \/ Softirq

LoSpec == LoInit /\ [][LoNext]_vars

LoFairSpec == LoSpec /\ DrvFair

\* the packets the loopback ISR has passed to net_input_handler, in order
LoInputs ==
    LET in == SelectSeq(net_in, LAMBDA e : e.dev = LoopbackDev.name)
    IN  [i \in 1 .. Len(in) |-> Pkt(in[i].type, in[i].data)]

QueueBounded == Len(lo_queue) <= LOOPBACK_QUEUE_LIMIT

\* what was transmitted is what the ISR has passed on followed by what is
\* still queued: each packet once, in the order of transmission
PassedOnceInOrder == LoInputs \o lo_queue = lo_sent

\* the step is a call of loopback_transmit up to its mutex_unlock
TransmitStep == budget' < budget /\ pending'[ETHER_IRQ] = pending[ETHER_IRQ]

\* with 16 entries queued the call returns -1, the queue and the pending
\* signals are as before and the thread is not on its way to
\* intr_raise_irq; with fewer, the packet is the new last entry and the
\* thread goes on to raise the IRQ
TransmitActs ==
    TransmitStep =>
        IF Len(lo_queue) = LOOPBACK_QUEUE_LIMIT
        THEN /\ urv'.op = "transmit" /\ urv'.ret = -1
             /\ lo_queue' = lo_queue
             /\ pending' = pending
             /\ uthr' = uthr
        ELSE \E t \in Threads :
                /\ uthr[t].pc = "idle" /\ uthr'[t].pc = "raise"
                /\ Len(lo_queue') = Len(lo_queue) + 1
                /\ SubSeq(lo_queue', 1, Len(lo_queue)) = lo_queue
                /\ lo_sent' = Append(lo_sent, lo_queue'[Len(lo_queue')])

\* the thread that queued a packet raises the IRQ of the device and
\* returns 0
RaiseActs ==
    \A t \in Threads :
        uthr[t].pc = "raise" /\ uthr'[t].pc = "idle"
            => /\ pending'[LOOPBACK_IRQ] = pending[LOOPBACK_IRQ] + 1
               /\ urv' = DrvReturn(t, 0)

\* the ISR empties the queue into net_input_handler
IsrActs ==
    intr_pc = LOOPBACK_IRQ /\ intr_pc' = "wait"
        => /\ lo_queue' = <<>>
           /\ Len(net_in') = Len(net_in) + Len(lo_queue)

LoopbackDrainedFull == lo_queue = <<>> /\ Len(LoInputs) = LOOPBACK_QUEUE_LIMIT

\* the entries of a queue or a log that belong to a type, as they were
\* accepted: device and payload
OfType(s, type) ==
    LET es == SelectSeq(s, LAMBDA e : e.type = type)
    IN  [i \in 1 .. Len(es) |-> [dev |-> es[i].dev, data |-> es[i].data]]

\* what net_input_handler accepted for a type
AcceptedOf(type) == IF Registered(type) THEN OfType(net_in, type) ELSE <<>>

Queued(type) == IF type \in EtherTypes THEN queues[type] ELSE <<>>

\* per type, what was accepted is what the handler was called with
\* followed by what is still queued: each payload once, with its bytes and
\* its device, in the order of arrival; nothing of a type without protocol
\* is queued or handled
HandledOnceInOrder ==
    \A type \in PktTypes : OfType(handled, type) \o Queued(type) = AcceptedOf(type)

\* the dispatch thread in sigwait with no soft interrupt pending has left
\* nothing queued
IdleEmpty ==
    intr_pc = "wait" /\ pending[SOFTIRQ] = 0 => \A p \in EtherTypes : queues[p] = <<>>

\* a payload of a type without protocol changes no queue and raises nothing
UnknownDropped ==
    (/\ Len(net_in') = Len(net_in) + 1
     /\ ~Registered(net_in'[Len(net_in')].type))
        => queues' = queues /\ pending'[SOFTIRQ] = pending[SOFTIRQ]

\* handlers are called in net_softirq_handler on the dispatch thread, one
\* after the other, and by no other step
HandlersOnDispatch ==
    handled' # handled
        => /\ intr_pc = SOFTIRQ /\ intr_pc' = "wait"
           /\ uthr' = uthr
           /\ \A p \in EtherTypes : queues'[p] = <<>>
           /\ Len(handled') = Len(handled) + Len(queues[NET_PROTOCOL_TYPE_IP])
                                           + Len(queues[NET_PROTOCOL_TYPE_ARP])

(***************************************************************************)
(* C32: every payload net_input_handler accepts for a registered ethertype *)
(* is passed to the protocol's handler once, with its bytes and device, in *)
(* FIFO order per protocol, and eventually: with the dispatch thread idle  *)
(* and no soft interrupt pending all protocol queues are empty, also when  *)
(* several raises of the soft interrupt fall into one run of the handler.  *)
(* Payloads of unregistered ethertypes are dropped without being queued,   *)
(* and handlers run on the dispatch thread only, one at a time.            *)
(***************************************************************************)
C32_InputDelivery ==
    /\ [] (HandledOnceInOrder /\ IdleEmpty)
    /\ [][UnknownDropped /\ HandlersOnDispatch]_vars
    /\ []<>(\A p \in EtherTypes : queues[p] = <<>>)

\* one run of the Ethernet ISR has queued two payloads, raising the soft
\* interrupt twice, and one run of net_softirq_handler has handled both
C32_Witness ==
    /\ budget = MaxDrvSteps - 1
    /\ lo_sent = <<>>
    /\ Len(handled) = 2
    /\ \A k \in 1 .. 2 : handled[k].dev = EtherDev.name
    /\ intr_pc = "wait"
    /\ pending[SOFTIRQ] = 0

====
